---- MODULE Spec2Model ----
(***************************************************************************)
(* faraday: declarative item types over a key/value store.                 *)
(*                                                                         *)
(* The model covers the declaration of item types (DeclarativeItemBase),   *)
(* the link resolution protocol (ItemLinkField, the reverse link           *)
(* properties and the pending-link table) and the per-instance link cache  *)
(* (LinkFieldProperty, Item.__setitem__ / __delitem__ / __init__).         *)
(***************************************************************************)
EXTENDS Integers, Sequences, FiniteSets, TLC

(***************************************************************************)
(* Bounds of the model.                                                    *)
(***************************************************************************)
\* item classes created by Spec (a failed declaration creates one too)
MaxTypes == 3
\* Item instances alive in SpecInst
MaxObjs == 2
MaxKeyTypes == 2
MaxMetaTypes == 2
MaxEqObjs == 2
MaxCreateObjs == 3
MaxPickleObjs == 2
MaxQueryObjs == 3
\* the elements of the source of a LazySequence, and the sequence objects
MaxLen == 3
MaxLazy == 2
\* the threads that use the connection proxy
MaxThreads == 3
\* the tables of the declared items, and the bulk flows run one after the other
MaxTables == 2
MaxFlows == 2
\* the arguments of build and the tables it builds
MaxTimeout == 2
MaxWait == 2
MaxBuildTables == 3

(***************************************************************************)
(* Names and values.                                                       *)
(***************************************************************************)
\* the item types of tests/test_items.py, TestLinkedItems
TypeNames == {"User", "Token"}
\* their declared key fields
FieldNames == {"uid", "token"}
\* DeclarativeItemBase._update_field and ._default_manager
UpdateField == "updated"
DefaultManager == "items"
\* the link field of Token
LinkNames == {"user", "owner"}
\* every name an attribute of a modelled class can have
AttrNames == FieldNames \cup LinkNames \cup
             {UpdateField, DefaultManager, "users", "tokens", "owned"}
\* values of the key fields
Vals == {1, 2}
\* a value a field of an instance does not hold (KeyError on access)
Missing == 0

\* ItemLinkField.Unset, the default of linked_name, and Python's None
UNSET == "<Unset>"
NONE == "<None>"

(***************************************************************************)
(* The state.                                                              *)
(*   cache          loading.cache: signed item name -> item class (0: no   *)
(*                  entry)                                                 *)
(*   pending_links  loading.pending_links: item name -> the links and      *)
(*                  reverse link properties waiting for that item          *)
(*   types          the item classes created so far (class id = index),    *)
(*                  each with its _meta and its class attributes           *)
(*   links          the ItemLinkField objects created so far               *)
(*   resolveLog     history: every resolve_link that completed             *)
(*   objs           the Item instances (instance id = index)               *)
(*   store          the items saved in the tables: <<class id, pk>>        *)
(*   lastOp         history: the last operation, its arguments and outcome *)
(*   alt            the registry of the run that declares the same types   *)
(*                  in the opposite order (SpecOrder only)                 *)
(*   stream         the query made through a reverse link manager: the     *)
(*                  instance of the manager, the link, the prefetched link *)
(*                  names and the stored items not yet yielded (SpecQuery) *)
(*   lazy           the LazySequence objects and their source iterators    *)
(*                  (SpecLazy)                                             *)
(*   proxy          db.DynamoDBConnectionProxy: the thread-local storage,  *)
(*                  the connections made and where each thread is in       *)
(*                  get_connection (SpecProxy)                             *)
(*   mgmt           the management functions of db: the tables, the one in *)
(*                  work, the loop counter and the output (SpecMgmt,       *)
(*                  SpecBuild)                                             *)
(***************************************************************************)
VARIABLES cache, pending_links, types, links, resolveLog, objs, store, lastOp, alt,
          stream, lazy, proxy, mgmt

vars == <<cache, pending_links, types, links, resolveLog, objs, store, lastOp, alt,
          stream, lazy, proxy, mgmt>>

\* the declaration-time state as one value
Registry ==
  [cache |-> cache, pending_links |-> pending_links, types |-> types,
   links |-> links, resolveLog |-> resolveLog]

EmptyRegistry ==
  [cache |-> [n \in TypeNames |-> 0],
   pending_links |-> [n \in TypeNames |-> <<>>],
   types |-> <<>>, links |-> <<>>, resolveLog |-> <<>>]

(***************************************************************************)
(* References to a link's target: the name given at declaration, or the    *)
(* item class.                                                             *)
(***************************************************************************)
NameRef(n) == [kind |-> "name", id |-> 0, name |-> n]
TypeRef(t) == [kind |-> "type", id |-> t, name |-> ""]

Absent == [kind |-> "absent", link |-> 0]
Attr(k) == [kind |-> k, link |-> 0]
ReverseAttr(l) == [kind |-> "reverse", link |-> l]

Ok(reg) == [reg |-> reg, error |-> "none"]
Raise(reg, e) == [reg |-> reg, error |-> e]

(***************************************************************************)
(* hasattr(cls, name) on an item class.  The default manager of an         *)
(* abstract item is an AbstractManagerDescriptor, whose __get__ raises     *)
(* AttributeError: hasattr is False for it.  An attribute that the class   *)
(* does not define is looked for in its bases, depth first.                *)
(***************************************************************************)
RECURSIVE getattr_mro(_, _, _)
getattr_mro(reg, ts, a) ==
  IF ts = <<>> THEN Absent
  ELSE IF reg.types[Head(ts)].attrs[a].kind # "absent"
  THEN reg.types[Head(ts)].attrs[a]
  ELSE getattr_mro(reg, reg.types[Head(ts)].bases \o Tail(ts), a)

hasattr(reg, t, a) ==
  getattr_mro(reg, <<t>>, a).kind \notin {"absent", "abstract_manager"}

(***************************************************************************)
(* utils.camel_to_underscore(name).replace('_', '') on the item names, and *)
(* the plural rule of ItemLinkField.contribute_to_class.                   *)
(***************************************************************************)
camel_to_underscore(name) ==
  CASE name = "User" -> "user"
    [] name = "Token" -> "token"

EndsWithS(s) == s \in {"users", "tokens", "items"}

PluralOf(s) ==
  CASE s = "user" -> "users"
    [] s = "token" -> "tokens"

SetOf(s) == s

default_linked_name(item_name, is_single) ==
  LET base == camel_to_underscore(item_name)
  IN  IF is_single THEN base
      ELSE IF EndsWithS(base) THEN SetOf(base) ELSE PluralOf(base)

(***************************************************************************)
(* ItemField.contribute_to_class: the field enters _meta.keys and a        *)
(* FieldProperty becomes a class attribute.  obj identifies the field      *)
(* object: the class for which it was made (in its body, or as a copy).    *)
(***************************************************************************)
ItemField_contribute_to_class(reg, t, key, role, obj) ==
  [reg EXCEPT !.types[t].keys = Append(@, [name |-> key, role |-> role, obj |-> obj]),
              !.types[t].attrs[key] = Attr("field")]

RECURSIVE contribute_keys(_, _, _)
contribute_keys(reg, t, ks) ==
  IF ks = <<>> THEN reg
  ELSE contribute_keys(
         ItemField_contribute_to_class(reg, t, Head(ks).name, Head(ks).role, t),
         t, Tail(ks))

(***************************************************************************)
(* ItemLinkField.resolve_link and                                          *)
(* AbstractReverseLinkFieldProperty.resolve_link.                          *)
(***************************************************************************)
ItemLinkField_resolve_link(reg, l, item) ==
  [reg EXCEPT !.links[l].item = TypeRef(item),
              !.resolveLog = Append(@, [kind |-> "link", link |-> l, target |-> item])]

\* mutant: the reverse link property is installed without the hasattr check
ReverseLink_resolve_link_unchecked(reg, l, parent) ==
  Ok([reg EXCEPT
        !.types[parent].attrs[reg.links[l].linked_name] = ReverseAttr(l),
        !.resolveLog = Append(@, [kind |-> "reverse", link |-> l,
                                  target |-> parent])])

ReverseLink_resolve_link(reg, l, parent) ==
  LET field_name == reg.links[l].linked_name
  IN  IF hasattr(reg, parent, field_name)
      THEN Raise(reg, "ValueError")
      ELSE Ok([reg EXCEPT
                 !.types[parent].attrs[field_name] = ReverseAttr(l),
                 !.resolveLog = Append(@, [kind |-> "reverse", link |-> l,
                                           target |-> parent])])

(***************************************************************************)
(* pending = loading.pending_links[linked_item]; pending.add(self);        *)
(* if reverse_link: pending.add(reverse_link)                              *)
(***************************************************************************)
\* mutant: the reverse link property is not registered
pending_add_link_only(reg, name, l, with_reverse) ==
  [reg EXCEPT !.pending_links[name] = @ \o <<[kind |-> "link", link |-> l]>>]

\* mutant: the reverse link property is registered before its link
pending_add_reverse_first(reg, name, l, with_reverse) ==
  [reg EXCEPT !.pending_links[name] =
     @ \o (IF with_reverse THEN <<[kind |-> "reverse", link |-> l]>> ELSE <<>>)
       \o <<[kind |-> "link", link |-> l]>>]

pending_add(reg, name, l, with_reverse) ==
  [reg EXCEPT !.pending_links[name] =
     @ \o <<[kind |-> "link", link |-> l]>>
       \o (IF with_reverse THEN <<[kind |-> "reverse", link |-> l]>> ELSE <<>>)]

\* mutant: a link to a registered name is resolved and also left in the
\* pending table
ItemLinkField_contribute_to_class_always_pending(reg, t, ld) ==
  LET l == Len(reg.links) + 1
      abstract == reg.types[t].abstract
      has_reverse == ld.linked_name # NONE
      linked_name ==
        IF ~abstract /\ ld.linked_name = UNSET
        THEN default_linked_name(reg.types[t].name, ld.is_single)
        ELSE ld.linked_name
      field == [owner |-> t, field_name |-> ld.field_name, item |-> ld.target,
                db_key |-> ld.db_key, linked_name |-> linked_name,
                is_single |-> ld.is_single]
      r1 == [reg EXCEPT !.links = Append(@, field),
                        !.types[t].links[ld.field_name] = l,
                        !.types[t].attrs[ld.field_name] = [kind |-> "link", link |-> l]]
  IN  IF abstract THEN Ok(r1)
      ELSE IF ld.target.kind = "name" /\ r1.cache[ld.target.name] = 0
      THEN Ok(pending_add(r1, ld.target.name, l, has_reverse))
      ELSE LET linked_item == IF ld.target.kind = "name"
                              THEN r1.cache[ld.target.name]
                              ELSE ld.target.id
               r2 == ItemLinkField_resolve_link(
                       IF ld.target.kind = "name"
                       THEN pending_add(r1, ld.target.name, l, has_reverse)
                       ELSE r1, l, linked_item)
           IN  IF has_reverse
               THEN ReverseLink_resolve_link(r2, l, linked_item)
               ELSE Ok(r2)

\* mutant: a link to a name that is not registered is not put in the pending
\* table
ItemLinkField_contribute_to_class_no_deferral(reg, t, ld) ==
  LET l == Len(reg.links) + 1
      abstract == reg.types[t].abstract
      has_reverse == ld.linked_name # NONE
      linked_name ==
        IF ~abstract /\ ld.linked_name = UNSET
        THEN default_linked_name(reg.types[t].name, ld.is_single)
        ELSE ld.linked_name
      field == [owner |-> t, field_name |-> ld.field_name, item |-> ld.target,
                db_key |-> ld.db_key, linked_name |-> linked_name,
                is_single |-> ld.is_single]
      r1 == [reg EXCEPT !.links = Append(@, field),
                        !.types[t].links[ld.field_name] = l,
                        !.types[t].attrs[ld.field_name] = [kind |-> "link", link |-> l]]
  IN  IF abstract THEN Ok(r1)
      ELSE IF ld.target.kind = "name" /\ r1.cache[ld.target.name] = 0
      THEN Ok(r1)
      ELSE LET linked_item == IF ld.target.kind = "name"
                              THEN r1.cache[ld.target.name]
                              ELSE ld.target.id
               r2 == ItemLinkField_resolve_link(r1, l, linked_item)
           IN  IF has_reverse
               THEN ReverseLink_resolve_link(r2, l, linked_item)
               ELSE Ok(r2)

(***************************************************************************)
(* The embedded key of a link is given by names or by the field objects of *)
(* the class body ("<uid>": the object bound to uid there).  A field       *)
(* object is looked up in reversed_keys, the key fields that _meta.keys    *)
(* holds when the link contributes; one that is not there is a KeyError.   *)
(***************************************************************************)
FieldRefs == {"<uid>", "<token>"}
FieldRef(name) ==
  CASE name = "uid" -> "<uid>"
    [] name = "token" -> "<token>"
RefName(ref) ==
  CASE ref = "<uid>" -> "uid"
    [] ref = "<token>" -> "token"

reversed_keys(reg, t) ==
  {FieldRef(reg.types[t].keys[i].name) :
     i \in {j \in DOMAIN reg.types[t].keys : reg.types[t].keys[j].name \in FieldNames}}

db_key_known(reg, t, db_key) ==
  \A i \in DOMAIN db_key : db_key[i] \in FieldRefs => db_key[i] \in reversed_keys(reg, t)

db_key_names(db_key) ==
  [i \in DOMAIN db_key |-> IF db_key[i] \in FieldRefs THEN RefName(db_key[i]) ELSE db_key[i]]

(***************************************************************************)
(* ItemLinkField.contribute_to_class(item, key) for the link declared by   *)
(* ld on class t.                                                          *)
(***************************************************************************)
ItemLinkField_contribute_to_class(reg, t, ld) ==
  LET l == Len(reg.links) + 1
      abstract == reg.types[t].abstract
      has_reverse == ld.linked_name # NONE
      linked_name ==
        IF ~abstract /\ ld.linked_name = UNSET
        THEN default_linked_name(reg.types[t].name, ld.is_single)
        ELSE ld.linked_name
      field == [owner |-> t, field_name |-> ld.field_name, item |-> ld.target,
                db_key |-> db_key_names(ld.db_key), linked_name |-> linked_name,
                is_single |-> ld.is_single]
      r1 == [reg EXCEPT !.links = Append(@, field),
                        !.types[t].links[ld.field_name] = l,
                        !.types[t].attrs[ld.field_name] = [kind |-> "link", link |-> l]]
  IN  IF ~db_key_known(reg, t, ld.db_key) THEN Raise(reg, "KeyError")
      ELSE IF abstract THEN Ok(r1)
      ELSE IF ld.target.kind = "name" /\ r1.cache[ld.target.name] = 0
      THEN Ok(pending_add(r1, ld.target.name, l, has_reverse))
      ELSE LET linked_item == IF ld.target.kind = "name"
                              THEN r1.cache[ld.target.name]
                              ELSE ld.target.id
               r2 == ItemLinkField_resolve_link(r1, l, linked_item)
           IN  IF has_reverse
               THEN ReverseLink_resolve_link(r2, l, linked_item)
               ELSE Ok(r2)

RECURSIVE contribute_links(_, _, _)
contribute_links(reg, t, lds) ==
  IF lds = <<>> THEN Ok(reg)
  ELSE LET c == ItemLinkField_contribute_to_class(reg, t, Head(lds))
       IN  IF c.error # "none" THEN c
           ELSE contribute_links(c.reg, t, Tail(lds))

(***************************************************************************)
(* ItemManager.contribute_to_class: the manager descriptor of a concrete   *)
(* item, the AbstractManagerDescriptor of an abstract one.                 *)
(***************************************************************************)
\* mutant: an abstract item gets the manager descriptor of a concrete one
ItemManager_contribute_to_class_always_manager(reg, t, key) ==
  [reg EXCEPT !.types[t].attrs[key] = Attr("manager")]

ItemManager_contribute_to_class(reg, t, key) ==
  [reg EXCEPT !.types[t].attrs[key] =
     IF reg.types[t].abstract THEN Attr("abstract_manager") ELSE Attr("manager")]

(***************************************************************************)
(* ItemMeta.set_properties: link_keys maps each embedded key field to the  *)
(* name of the link that holds it (a later link overwrites an earlier).    *)
(***************************************************************************)
RECURSIVE link_keys_of(_, _, _)
link_keys_of(reg, names, acc) ==
  IF names = {} THEN acc
  ELSE LET n == CHOOSE x \in names : TRUE
           l == reg.links[n.link]
       IN  link_keys_of(reg, names \ {n},
             [f \in FieldNames |->
                IF \E i \in DOMAIN l.db_key : l.db_key[i] = f
                THEN n.name ELSE acc[f]])

set_properties(reg, t) ==
  LET declared == {[name |-> n, link |-> reg.types[t].links[n]] :
                     n \in {x \in LinkNames : reg.types[t].links[x] # 0}}
  IN  [reg EXCEPT !.types[t].link_keys =
         link_keys_of(reg, declared, [f \in FieldNames |-> ""])]

(***************************************************************************)
(* The receivers of loading.item_declared: the links and reverse link      *)
(* properties waiting for the declared item are resolved against it in the *)
(* order in which they were registered, the entry is removed from the      *)
(* pending table, and the item enters loading.cache under its name.  An    *)
(* error of a resolve_link ends the declaration.                           *)
(***************************************************************************)
RECURSIVE resolve_pending(_, _, _)
resolve_pending(reg, entries, t) ==
  IF entries = <<>> THEN Ok(reg)
  ELSE LET e == Head(entries)
           r == IF e.kind = "link"
                THEN Ok(ItemLinkField_resolve_link(reg, e.link, t))
                ELSE ReverseLink_resolve_link(reg, e.link, t)
       IN  IF r.error # "none" THEN r
           ELSE resolve_pending(r.reg, Tail(entries), t)

item_declared_send(reg, t) ==
  LET name == reg.types[t].name
      r == resolve_pending([reg EXCEPT !.pending_links[name] = <<>>,
                                       !.types[t].sent = Append(@, reg.types[t].tables)],
                           reg.pending_links[name], t)
  IN  IF r.error # "none" THEN r
      ELSE Ok([r.reg EXCEPT !.cache[name] = t])

(***************************************************************************)
(* The schema of DeclarativeItemBase.__new__: over _meta.keys, a hash key  *)
(* is inserted in front and a range key appended.                          *)
(***************************************************************************)
\* mutant: every key field is appended
schema_of_append(ks, acc) ==
  LET key == {i \in DOMAIN ks : ks[i].role \in {"hash", "range"}}
      nth[n \in 0..Len(ks)] ==
        IF n = 0 THEN <<>>
        ELSE IF n \in key THEN Append(nth[n - 1], ks[n].name) ELSE nth[n - 1]
  IN  acc \o nth[Len(ks)]

RECURSIVE schema_of(_, _)
schema_of(ks, acc) ==
  IF ks = <<>> THEN acc
  ELSE schema_of(Tail(ks),
         IF Head(ks).role = "hash" THEN <<Head(ks).name>> \o acc
         ELSE IF Head(ks).role = "range" THEN Append(acc, Head(ks).name)
         ELSE acc)

\* the number of key fields of class t with the role
NumRole(reg, t, role) ==
  Cardinality({i \in DOMAIN reg.types[t].keys : reg.types[t].keys[i].role = role})

(***************************************************************************)
(* Table(table_name, item, schema, indexes): the table of a concrete item. *)
(* A schema that is not one hash key, or one hash key and one range key,   *)
(* is a declaration error.                                                 *)
(***************************************************************************)
Table_init(reg, t, schema) ==
  IF NumRole(reg, t, "hash") = 1 /\ NumRole(reg, t, "range") <= 1
  THEN Ok([reg EXCEPT !.types[t].schema = schema])
  ELSE Raise(reg, "DeclarationError")

(***************************************************************************)
(* ItemMeta.__init__(name, user=Meta): the options of the declaration.  A  *)
(* table name given to an abstract item is an error; a concrete item       *)
(* without one gets the lower-cased name, with an s unless it ends in s,   *)
(* prefixed by the app name if there is one.                               *)
(***************************************************************************)
Dotted(app_name, table_name) ==
  CASE app_name = "app" /\ table_name = "users" -> "app.users"
    [] app_name = "app" /\ table_name = "tokens" -> "app.tokens"

\* mutant: an abstract item keeps the table name it is given
ItemMeta_init_abstract_table(d) ==
  IF d.table_name # NONE
  THEN [table_name |-> d.table_name, error |-> "none"]
  ELSE IF ~d.abstract
  THEN LET base == camel_to_underscore(d.name)
           plural == IF EndsWithS(base) THEN base ELSE PluralOf(base)
       IN  [table_name |-> IF d.app_name # NONE THEN Dotted(d.app_name, plural) ELSE plural,
            error |-> "none"]
  ELSE [table_name |-> NONE, error |-> "none"]

ItemMeta_init(d) ==
  IF d.table_name # NONE
  THEN IF d.abstract
       THEN [table_name |-> NONE, error |-> "TypeError"]
       ELSE [table_name |-> d.table_name, error |-> "none"]
  ELSE IF ~d.abstract
  THEN LET base == camel_to_underscore(d.name)
           plural == IF EndsWithS(base) THEN base ELSE PluralOf(base)
       IN  [table_name |-> IF d.app_name # NONE THEN Dotted(d.app_name, plural) ELSE plural,
            error |-> "none"]
  ELSE [table_name |-> NONE, error |-> "none"]

(***************************************************************************)
(* "Reset inherited values as copies": every field, link and manager of a  *)
(* parent that the class body does not declare, and that is not yet in the *)
(* keys, links or managers of the class, contributes a copy of itself.     *)
(***************************************************************************)
\* the names bound in the class body
DeclaredNames(d) ==
  {d.keys[i].name : i \in DOMAIN d.keys} \cup {d.links[i].field_name : i \in DOMAIN d.links}

\* key in item_meta.keys, item_meta.links or item_meta.managers
InPlaces(reg, t, key) ==
  \/ \E i \in DOMAIN reg.types[t].keys : reg.types[t].keys[i].name = key
  \/ key \in LinkNames /\ reg.types[t].links[key] # 0
  \/ key = DefaultManager /\ reg.types[t].attrs[key].kind \in {"manager", "abstract_manager"}

\* mutant: the field object of the parent is contributed, not a copy
copy_field_shared(field, t) == field

\* copy.copy(value) of a field, made for class t
copy_field(field, t) == [field EXCEPT !.obj = t]

RECURSIVE inherit_keys(_, _, _, _)
inherit_keys(reg, t, ks, declared) ==
  IF ks = <<>> THEN reg
  ELSE LET k == Head(ks)
           r == IF k.name \notin declared /\ ~InPlaces(reg, t, k.name)
                THEN ItemField_contribute_to_class(reg, t, k.name, k.role, copy_field(k, t).obj)
                ELSE reg
       IN  inherit_keys(r, t, Tail(ks), declared)

\* copy.copy(value) of the link l: its target, embedded keys and reverse
\* name as they are now
copy_link(reg, l) ==
  [field_name |-> reg.links[l].field_name, target |-> reg.links[l].item,
   db_key |-> reg.links[l].db_key, linked_name |-> reg.links[l].linked_name,
   is_single |-> reg.links[l].is_single]

RECURSIVE inherit_links(_, _, _, _, _)
inherit_links(reg, t, p, names, declared) ==
  IF names = {} THEN Ok(reg)
  ELSE LET n == CHOOSE x \in names : TRUE
           c == IF reg.types[p].links[n] # 0 /\ n \notin declared /\ ~InPlaces(reg, t, n)
                THEN ItemLinkField_contribute_to_class(reg, t, copy_link(reg, reg.types[p].links[n]))
                ELSE Ok(reg)
       IN  IF c.error # "none" THEN c
           ELSE inherit_links(c.reg, t, p, names \ {n}, declared)

RECURSIVE inherit(_, _, _, _)
inherit(reg, t, parents, declared) ==
  IF parents = <<>> THEN Ok(reg)
  ELSE LET p == Head(parents)
           r1 == inherit_keys(reg, t, reg.types[p].keys, declared)
           c2 == inherit_links(r1, t, p, LinkNames, declared)
           r3 == IF DefaultManager \notin declared /\ ~InPlaces(c2.reg, t, DefaultManager)
                 THEN ItemManager_contribute_to_class(c2.reg, t, DefaultManager)
                 ELSE c2.reg
       IN  IF c2.error # "none" THEN c2
           ELSE inherit(r3, t, Tail(parents), declared)

(***************************************************************************)
(* DeclarativeItemBase.__new__ for the declaration d: the class is         *)
(* created, the declared fields and links contribute to it, the defaults   *)
(* (the updated field, the default manager) are set, and a concrete item   *)
(* is announced.  The declared attributes are processed key fields first.  *)
(* declared: the class statement has returned.  tables: the pairs (key of  *)
(* a manager of the class, table bound to it), the table made for class t  *)
(* being t.  sent: the item_declared notifications sent with the class as  *)
(* sender, each with the tables of its managers at that time.              *)
(***************************************************************************)
\* the keys of _meta.managers that the model knows, and those class t holds
ManagerNames == {DefaultManager}
meta_managers(reg, t) ==
  {k \in ManagerNames : reg.types[t].attrs[k].kind \in {"manager", "abstract_manager"}}

NewClass(d) ==
  [name |-> d.name, abstract |-> d.abstract, keys |-> <<>>, schema |-> <<>>,
   bases |-> d.bases, table_name |-> ItemMeta_init(d).table_name, declared |-> FALSE,
   links |-> [n \in LinkNames |-> 0],
   link_keys |-> [f \in FieldNames |-> ""],
   attrs |-> [a \in AttrNames |-> Absent],
   tables |-> {}, sent |-> <<>>]

set_defaults(reg, t) ==
  LET r1 == IF ~reg.types[t].abstract /\ ~hasattr(reg, t, UpdateField)
            THEN ItemField_contribute_to_class(reg, t, UpdateField, "plain", t)
            ELSE reg
  IN  IF r1.types[t].attrs[DefaultManager].kind \in {"manager", "abstract_manager"}
      THEN r1
      ELSE ItemManager_contribute_to_class(r1, t, DefaultManager)

\* the steps of __new__, each on the outcome c of the step before it: the
\* class is created and its declared fields and links contribute to it
new_declared(reg, t, d) ==
  contribute_links(contribute_keys([reg EXCEPT !.types = Append(@, NewClass(d))], t, d.keys),
                   t, d.links)

\* the same with the declared attributes in another order of attrs.items():
\* the links contribute when the first p key fields have
new_declared_at(reg, t, d, p) ==
  LET c == contribute_links(
             contribute_keys([reg EXCEPT !.types = Append(@, NewClass(d))], t,
                             SubSeq(d.keys, 1, p)),
             t, d.links)
  IN  IF c.error # "none" THEN c
      ELSE Ok(contribute_keys(c.reg, t, SubSeq(d.keys, p + 1, Len(d.keys))))

\* the inherited values are reset as copies
new_inherited(c, t, d) ==
  IF c.error # "none" THEN c ELSE inherit(c.reg, t, d.bases, DeclaredNames(d))

\* the update field and the default manager are set, then the properties
new_defaults(c, t) ==
  IF c.error # "none" THEN c ELSE Ok(set_properties(set_defaults(c.reg, t), t))

\* an abstract item is done here; a concrete one gets its table
bind_table(c, t) ==
  IF c.error # "none" THEN c
  ELSE Ok([c.reg EXCEPT !.types[t].tables =
             {b \in @ : b[1] \notin meta_managers(c.reg, t)}
               \cup {<<k, t>> : k \in meta_managers(c.reg, t)}])

new_table(c, t, d) ==
  IF c.error # "none" \/ d.abstract THEN c
  ELSE bind_table(Table_init(c.reg, t, schema_of(c.reg.types[t].keys, <<>>)), t)

\* mutant: an abstract item is announced too
new_announced_abstract(c, t, d) ==
  IF c.error # "none" THEN c ELSE item_declared_send(c.reg, t)

\* the concrete item is announced
new_announced(c, t, d) ==
  IF c.error # "none" \/ d.abstract THEN c ELSE item_declared_send(c.reg, t)

\* the class statement returns
new_returned(c, t) ==
  IF c.error # "none" THEN c ELSE Ok([c.reg EXCEPT !.types[t].declared = TRUE])

\* mutant: the item is announced before its table is made
DeclarativeItemBase_new_announce_first(reg, d) ==
  IF ItemMeta_init(d).error # "none" THEN Raise(reg, ItemMeta_init(d).error)
  ELSE new_returned(
         new_table(
           new_announced(
             new_defaults(
               new_inherited(new_declared(reg, Len(reg.types) + 1, d), Len(reg.types) + 1, d),
               Len(reg.types) + 1),
             Len(reg.types) + 1, d),
           Len(reg.types) + 1, d),
         Len(reg.types) + 1)

DeclarativeItemBase_new(reg, d) ==
  IF ItemMeta_init(d).error # "none" THEN Raise(reg, ItemMeta_init(d).error)
  ELSE new_returned(
         new_announced(
           new_table(
             new_defaults(
               new_inherited(new_declared(reg, Len(reg.types) + 1, d), Len(reg.types) + 1, d),
               Len(reg.types) + 1),
             Len(reg.types) + 1, d),
           Len(reg.types) + 1, d),
         Len(reg.types) + 1)

\* __new__ with the links contributing after the first p key fields
DeclarativeItemBase_new_at(reg, d, p) ==
  IF ItemMeta_init(d).error # "none" THEN Raise(reg, ItemMeta_init(d).error)
  ELSE new_returned(
         new_announced(
           new_table(
             new_defaults(
               new_inherited(new_declared_at(reg, Len(reg.types) + 1, d, p),
                             Len(reg.types) + 1, d),
               Len(reg.types) + 1),
             Len(reg.types) + 1, d),
           Len(reg.types) + 1, d),
         Len(reg.types) + 1)

(***************************************************************************)
(* The declarations the model draws from: User (hash key uid) and Token    *)
(* (hash key uid, range key token), concrete or abstract; Token may hold   *)
(* the link user, embedded in uid, to an item given by name ("User", or    *)
(* "Token" itself) or to an existing class given by reference.             *)
(***************************************************************************)
KeysOf(name) ==
  IF name = "User"
  THEN <<[name |-> "uid", role |-> "hash"]>>
  ELSE <<[name |-> "uid", role |-> "hash"], [name |-> "token", role |-> "range"]>>

LinkDecl(target, linked_name, is_single) ==
  [field_name |-> "user", target |-> target, db_key |-> <<"uid">>,
   linked_name |-> linked_name, is_single |-> is_single]

Targets(n) == {NameRef(nm) : nm \in TypeNames} \cup {TypeRef(t) : t \in 1..n}

LinkDecls(n) ==
  {LinkDecl(tg, ln, sg) :
     tg \in Targets(n), ln \in {UNSET, NONE, "items"}, sg \in BOOLEAN}

\* the declarations possible when n classes exist
Decls(n) ==
  {[name |-> "User", abstract |-> a, keys |-> KeysOf("User"), links |-> <<>>,
   bases |-> <<>>, table_name |-> NONE, app_name |-> NONE] :
     a \in BOOLEAN}
  \cup
  {[name |-> "Token", abstract |-> a, keys |-> KeysOf("Token"), links |-> ls,
   bases |-> <<>>, table_name |-> NONE, app_name |-> NONE] :
     a \in BOOLEAN,
     ls \in {<<>>} \cup {<<ld>> : ld \in {x \in LinkDecls(n) :
                                            x.linked_name = UNSET \/ ~x.is_single}}}

NoDecl ==
  [name |-> "", abstract |-> FALSE, keys |-> <<>>, links |-> <<>>,
   bases |-> <<>>, table_name |-> NONE, app_name |-> NONE]

NoData == [f \in FieldNames |-> Missing]

\* lastOp: op, the operation; obj, the class or instance it was applied to;
\* key, arg, loaded, decl, its arguments; result, the instance returned
\* (0: None); lookups, the get_item calls it made; error, the exception it
\* raised; names, what the message of the exception names; value, a returned
\* value that is not an instance
NoOp ==
  [op |-> "none", obj |-> 0, key |-> "", arg |-> 0, loaded |-> FALSE, result |-> 0, lookups |-> 0, error |-> "none",
   names |-> "", decl |-> NoDecl, value |-> <<>>]

\* no query is running: links.given is FALSE when request.links is None
NoStream ==
  [instance |-> 0, link |-> 0, links |-> [given |-> FALSE, names |-> {}],
   iterable |-> <<>>]

NoLazy == <<>>

\* no thread and no table
NoProxy == <<>>
NoMgmt == <<>>

(***************************************************************************)
(* Spec: item types are declared one after the other.                      *)
(***************************************************************************)
Init ==
  /\ cache = EmptyRegistry.cache
  /\ pending_links = EmptyRegistry.pending_links
  /\ types = <<>>
  /\ links = <<>>
  /\ resolveLog = <<>>
  /\ objs = <<>>
  /\ store = {}
  /\ lastOp = NoOp
  /\ alt = EmptyRegistry
  /\ stream = NoStream
  /\ proxy = NoProxy
  /\ mgmt = NoMgmt
  /\ lazy = NoLazy

SetRegistry(reg) ==
  /\ cache' = reg.cache
  /\ pending_links' = reg.pending_links
  /\ types' = reg.types
  /\ links' = reg.links
  /\ resolveLog' = reg.resolveLog

\* class <name>(Item): ...
DeclareItem ==
  /\ Len(types) < MaxTypes
  /\ \E d \in Decls(Len(types)) :
       LET r == DeclarativeItemBase_new(Registry, d)
       IN  /\ SetRegistry(r.reg)
           /\ lastOp' = [NoOp EXCEPT !.op = "declare", !.obj = Len(types) + 1,
                                    !.error = r.error, !.decl = d]
  /\ UNCHANGED <<objs, store, alt, stream, lazy, proxy, mgmt>>

Next == DeclareItem

Spec == Init /\ [][Next]_vars

(***************************************************************************)
(* Item instances.  An instance holds its class, its _data (Missing: the   *)
(* key is not in _data), its _loaded flag and, per link field, the         *)
(* attribute _<name>_cache (0: the attribute is not set).                  *)
(***************************************************************************)
\* orig: _orig_data, the data as loaded; managers: the links whose reverse
\* manager is kept in the instance's __dict__
NewItem(t, data, loaded) ==
  [type |-> t, data |-> data, loaded |-> loaded, cache |-> [n \in LinkNames |-> 0],
   orig |-> IF loaded THEN data ELSE [f \in FieldNames |-> Missing], managers |-> {}]

\* the outcome of an operation on instances
Done(os, result, lookups) ==
  [objs |-> os, error |-> "none", names |-> "", result |-> result, lookups |-> lookups]
Fail(os, e, names, lookups) ==
  [objs |-> os, error |-> e, names |-> names, result |-> 0, lookups |-> lookups]

(***************************************************************************)
(* table.get_key_fields(): the names of the schema.                        *)
(***************************************************************************)
get_key_fields(reg, t) == reg.types[t].schema

\* Item.pk: the values of the key fields (KeyError when one is not set)
HasPk(reg, os, o) ==
  \A i \in DOMAIN get_key_fields(reg, os[o].type) :
    os[o].data[get_key_fields(reg, os[o].type)[i]] # Missing

pk(reg, os, o) ==
  [i \in DOMAIN get_key_fields(reg, os[o].type) |->
     os[o].data[get_key_fields(reg, os[o].type)[i]]]

\* the names in _meta.keys of class t
KeyNames(reg, t) == {reg.types[t].keys[i].name : i \in DOMAIN reg.types[t].keys}

(***************************************************************************)
(* Item._pre_set: a declared key field is decoded; the name of a link      *)
(* field and an undeclared name raise TypeError.                           *)
(***************************************************************************)
pre_set(reg, t, key) ==
  IF key \in KeyNames(reg, t) THEN "none" ELSE "TypeError"

(***************************************************************************)
(* The methods of LinkFieldProperty (with those of BaseFieldProperty), and *)
(* Item._clear_link_cache: the descriptor of the link that embeds key is   *)
(* taken from the class and its cache_clear is called.                     *)
(***************************************************************************)
LinkFieldPropertyMethods ==
  {"__init__", "__repr__", "cache_get", "cache_set", "__get__", "__set__", "__delete__"}

ItemLinkField_cache_clear(os, o, name) ==
  [os EXCEPT ![o].cache[name] = 0]

\* mutant: no cache is looked for, and the write or deletion goes on
clear_link_cache_skipped(reg, os, o, key) == Done(os, 0, 0)

clear_link_cache(reg, os, o, key) ==
  LET link_name == IF key \in FieldNames
                   THEN reg.types[os[o].type].link_keys[key] ELSE ""
  IN  IF link_name = "" THEN Done(os, 0, 0)
      ELSE IF "cache_clear" \in LinkFieldPropertyMethods
      THEN Done(ItemLinkField_cache_clear(os, o, link_name), 0, 0)
      ELSE Fail(os, "AttributeError", "cache_clear", 0)

(***************************************************************************)
(* Item.__setitem__ and Item.__delitem__.                                  *)
(***************************************************************************)
Item_setitem(reg, os, o, key, value) ==
  IF pre_set(reg, os[o].type, key) # "none"
  THEN Fail(os, pre_set(reg, os[o].type, key), key, 0)
  ELSE LET c == clear_link_cache(reg, os, o, key)
       IN  IF c.error # "none" THEN c
           ELSE Done([c.objs EXCEPT ![o].data[key] = value], 0, 0)

Item_delitem(reg, os, o, key) ==
  LET c == clear_link_cache(reg, os, o, key)
  IN  IF c.error # "none" THEN c
      ELSE IF key \in FieldNames
      THEN Done([c.objs EXCEPT ![o].data[key] = Missing], 0, 0)
      ELSE c

(***************************************************************************)
(* manager.get_item(query) on the table of class t: a new instance,      *)
(* loaded, of the stored item with that key; DoesNotExist when the table   *)
(* holds none.                                                             *)
(***************************************************************************)
get_item(reg, os, st, t, query) ==
  IF \E s \in st :
       /\ s.type = t
       /\ \A i \in DOMAIN get_key_fields(reg, t) :
            /\ query[get_key_fields(reg, t)[i]] # Missing
            /\ query[get_key_fields(reg, t)[i]] = s.data[get_key_fields(reg, t)[i]]
  THEN LET s == CHOOSE x \in st :
                  /\ x.type = t
                  /\ \A i \in DOMAIN get_key_fields(reg, t) :
                       query[get_key_fields(reg, t)[i]] = x.data[get_key_fields(reg, t)[i]]
       IN  Done(Append(os, NewItem(t, s.data, TRUE)), Len(os) + 1, 1)
  ELSE Fail(os, "DoesNotExist", "", 1)

(***************************************************************************)
(* LinkFieldProperty.__get__, __set__.                                     *)
(***************************************************************************)
\* field.item.items: the default manager of the link's target
has_manager(reg, item) ==
  item.kind = "type" /\ reg.types[item.id].attrs[DefaultManager].kind = "manager"

\* repr(field.item) in the message of the TypeError
repr_item(reg, item) ==
  IF item.kind = "name" THEN item.name ELSE reg.types[item.id].name

LinkField(reg, os, o, name) == reg.links[reg.types[os[o].type].links[name]]

\* dict(zip(keys, values)), values the instance's values of db_key
zip_query(keys, db_key, data) ==
  [f \in FieldNames |->
     IF \E i \in DOMAIN keys : i \in DOMAIN db_key /\ keys[i] = f
     THEN data[db_key[CHOOSE i \in DOMAIN keys : i \in DOMAIN db_key /\ keys[i] = f]]
     ELSE Missing]

\* mutant: the result of the lookup is not stored in the cache slot
LinkFieldProperty_get_no_cache_set(reg, os, st, o, name) ==
  LET field == LinkField(reg, os, o, name)
  IN  IF os[o].cache[name] # 0 THEN Done(os, os[o].cache[name], 0)
      ELSE IF ~has_manager(reg, field.item)
      THEN Fail(os, "TypeError", repr_item(reg, field.item), 0)
      ELSE IF \E i \in DOMAIN field.db_key : os[o].data[field.db_key[i]] = Missing
      THEN Done(os, 0, 0)
      ELSE LET r == get_item(reg, os, st, field.item.id,
                             zip_query(get_key_fields(reg, field.item.id),
                                       field.db_key, os[o].data))
           IN  r

\* mutant: the default manager of the target is not asked for: an unresolved
\* name reads as None, an abstract target is looked up
LinkFieldProperty_get_no_manager_check(reg, os, st, o, name) ==
  LET field == LinkField(reg, os, o, name)
  IN  IF os[o].cache[name] # 0 THEN Done(os, os[o].cache[name], 0)
      ELSE IF field.item.kind # "type"
      THEN Done(os, 0, 0)
      ELSE IF \E i \in DOMAIN field.db_key : os[o].data[field.db_key[i]] = Missing
      THEN Done(os, 0, 0)
      ELSE LET r == get_item(reg, os, st, field.item.id,
                             zip_query(get_key_fields(reg, field.item.id),
                                       field.db_key, os[o].data))
           IN  IF r.error # "none" THEN r
               ELSE [r EXCEPT !.objs[o].cache[name] = r.result]

LinkFieldProperty_get(reg, os, st, o, name) ==
  LET field == LinkField(reg, os, o, name)
  IN  IF os[o].cache[name] # 0 THEN Done(os, os[o].cache[name], 0)
      ELSE IF ~has_manager(reg, field.item)
      THEN Fail(os, "TypeError", repr_item(reg, field.item), 0)
      ELSE IF \E i \in DOMAIN field.db_key : os[o].data[field.db_key[i]] = Missing
      THEN Done(os, 0, 0)
      ELSE LET r == get_item(reg, os, st, field.item.id,
                             zip_query(get_key_fields(reg, field.item.id),
                                       field.db_key, os[o].data))
           IN  IF r.error # "none" THEN r
               ELSE [r EXCEPT !.objs[o].cache[name] = r.result]

\* for (key, value) in zip(field.db_key, related.pk): instance[key] = value
RECURSIVE set_db_key(_, _, _, _, _)
set_db_key(reg, os, o, db_key, values) ==
  IF db_key = <<>> \/ values = <<>> THEN Done(os, 0, 0)
  ELSE LET r == Item_setitem(reg, os, o, Head(db_key), Head(values))
       IN  IF r.error # "none" THEN r
           ELSE set_db_key(reg, r.objs, o, Tail(db_key), Tail(values))

LinkFieldProperty_set(reg, os, o, name, related) ==
  LET field == LinkField(reg, os, o, name)
  IN  IF ~HasPk(reg, os, related) THEN Fail(os, "KeyError", "", 0)
      ELSE LET r == set_db_key(reg, os, o, field.db_key, pk(reg, os, related))
           IN  IF r.error # "none" THEN r
               ELSE Done([r.objs EXCEPT ![o].cache[name] = related], 0, 0)

\* for key in field.db_key: del instance[key]
RECURSIVE del_db_key(_, _, _, _)
del_db_key(reg, os, o, db_key) ==
  IF db_key = <<>> THEN Done(os, 0, 0)
  ELSE LET r == Item_delitem(reg, os, o, Head(db_key))
       IN  IF r.error # "none" THEN r
           ELSE del_db_key(reg, r.objs, o, Tail(db_key))

\* LinkFieldProperty.__delete__
LinkFieldProperty_delete(reg, os, o, name) ==
  LET r == del_db_key(reg, os, o, LinkField(reg, os, o, name).db_key)
  IN  IF r.error # "none" THEN r
      ELSE Done(ItemLinkField_cache_clear(r.objs, o, name), 0, 0)

(***************************************************************************)
(* Item.__init__(data, loaded, kwdata)  : the instance is new; the plain   *)
(* fields go to _data through _pre_set, the link fields are gathered and   *)
(* then assigned through their descriptors.  related: the instance given   *)
(* for the link field `name` (0: none given).                              *)
(***************************************************************************)
Item_init(reg, os, t, data, loaded, name, related) ==
  IF t = 0 \/ reg.types[t].abstract THEN Fail(os, "TypeError", "abstract", 0)
  ELSE IF related # 0 /\ reg.types[t].links[name] # 0 /\ loaded
  THEN Fail(os, "TypeError", "loaded", 0)
  ELSE IF \/ \E f \in FieldNames : data[f] # Missing /\ pre_set(reg, t, f) # "none"
          \/ related # 0 /\ reg.types[t].links[name] = 0
  THEN Fail(os, "TypeError", "undeclared", 0)
  ELSE LET o == Len(os) + 1
           os1 == Append(os, NewItem(t, data, loaded))
       IN  IF related = 0 THEN Done(os1, o, 0)
           ELSE LET r == LinkFieldProperty_set(reg, os1, o, name, related)
                IN  IF r.error # "none" THEN [r EXCEPT !.objs = os]
                    ELSE [r EXCEPT !.result = o]

(***************************************************************************)
(* cls.items: ItemManagerDescriptor.__get__ returns the manager;           *)
(* AbstractManagerDescriptor.__get__ raises AttributeError, whose message  *)
(* names the item for which the descriptor was made.                       *)
(***************************************************************************)
\* the class, among ts and their bases, whose attribute a is found first
RECURSIVE mro_owner(_, _, _)
mro_owner(reg, ts, a) ==
  IF ts = <<>> THEN 0
  ELSE IF reg.types[Head(ts)].attrs[a].kind # "absent" THEN Head(ts)
  ELSE mro_owner(reg, reg.types[Head(ts)].bases \o Tail(ts), a)

manager_get(reg, os, t, key) ==
  LET owner == mro_owner(reg, <<t>>, key)
  IN  IF owner # 0 /\ reg.types[owner].attrs[key].kind = "abstract_manager"
      THEN Fail(os, "AttributeError", reg.types[owner].name, 0)
      ELSE IF owner # 0 /\ reg.types[owner].attrs[key].kind = "manager"
      THEN Done(os, 0, 0)
      ELSE Fail(os, "AttributeError", key, 0)

(***************************************************************************)
(* SpecInst: the item types are declared (one of Scenarios), the tables    *)
(* hold some items, and instances are constructed, written and read.       *)
(***************************************************************************)
UserDecl(abstract) ==
  [name |-> "User", abstract |-> abstract, keys |-> KeysOf("User"), links |-> <<>>,
   bases |-> <<>>, table_name |-> NONE, app_name |-> NONE]
TokenDecl(target, linked_name) ==
  [name |-> "Token", abstract |-> FALSE, keys |-> KeysOf("Token"),
   links |-> <<LinkDecl(target, linked_name, FALSE)>>,
   bases |-> <<>>, table_name |-> NONE, app_name |-> NONE]

\* class AbstractToken(Item): token = RangeKeyField(); Meta: abstract = True
\* (under the name Token), and class UserToken(AbstractToken):
\* uid = HashKeyField() (under the name User)
AbstractTokenDecl ==
  [name |-> "Token", abstract |-> TRUE, keys |-> <<[name |-> "token", role |-> "range"]>>,
   links |-> <<>>, bases |-> <<>>, table_name |-> NONE, app_name |-> NONE]
UserTokenDecl(base) ==
  [name |-> "User", abstract |-> FALSE, keys |-> <<[name |-> "uid", role |-> "hash"]>>,
   links |-> <<>>, bases |-> <<base>>, table_name |-> NONE, app_name |-> NONE]

Scenarios ==
  { <<UserDecl(FALSE), TokenDecl(NameRef("User"), UNSET)>>,
    <<TokenDecl(NameRef("User"), UNSET), UserDecl(FALSE)>>,
    <<TokenDecl(NameRef("User"), UNSET)>>,
    <<UserDecl(TRUE), TokenDecl(TypeRef(1), NONE)>>,
    <<AbstractTokenDecl, UserTokenDecl(1)>> }

RECURSIVE declare_all(_, _)
declare_all(reg, ds) ==
  IF ds = <<>> THEN reg
  ELSE declare_all(DeclarativeItemBase_new(reg, Head(ds)).reg, Tail(ds))

\* the items a table can hold at the start: the User with uid 1
Stores(reg) ==
  SUBSET {[type |-> t, data |-> [NoData EXCEPT !["uid"] = 1]] :
            t \in {x \in DOMAIN reg.types :
                     ~reg.types[x].abstract /\ reg.types[x].name = "User"}}

InitInst ==
  /\ \E sc \in Scenarios :
       LET reg == declare_all(EmptyRegistry, sc)
       IN  /\ cache = reg.cache
           /\ pending_links = reg.pending_links
           /\ types = reg.types
           /\ links = reg.links
           /\ resolveLog = reg.resolveLog
           /\ store \in Stores(reg)
  /\ objs = <<>>
  /\ lastOp = NoOp
  /\ alt = EmptyRegistry
  /\ stream = NoStream
  /\ proxy = NoProxy
  /\ mgmt = NoMgmt
  /\ lazy = NoLazy

\* the keyword data of a constructor call: uid or none, and token (which a
\* User does not declare)
InitData(t) ==
  {[NoData EXCEPT !["uid"] = u, !["token"] = k] :
     u \in Vals \cup {Missing},
     k \in (IF types[t].name = "Token" THEN {1} ELSE {Missing, 1})}

Outcome(r, op, o, key, arg) ==
  /\ objs' = r.objs
  /\ lastOp' = [NoOp EXCEPT !.op = op, !.obj = o, !.key = key, !.arg = arg,
                            !.result = r.result, !.lookups = r.lookups,
                            !.error = r.error, !.names = r.names]
  /\ UNCHANGED <<cache, pending_links, types, links, resolveLog, store, alt, stream, lazy, proxy, mgmt>>

\* cls(loaded=..., uid=...) and cls(loaded=..., user=related, uid=...)
ItemInit ==
  /\ Len(objs) < MaxObjs
  /\ \E t \in {0} \cup DOMAIN types, related \in {0} \cup DOMAIN objs :
       \E data \in (IF t = 0 THEN {NoData} ELSE InitData(t)),
          loaded \in (IF related = 0 THEN {FALSE} ELSE BOOLEAN) :
         LET r == Item_init(Registry, objs, t, data, loaded, "user", related)
         IN  /\ t = 0 => related = 0
             /\ objs' = r.objs
             /\ lastOp' = [NoOp EXCEPT !.op = "init", !.obj = t, !.key = "user",
                                      !.arg = related, !.loaded = loaded, !.result = r.result,
                                      !.error = r.error, !.names = r.names]
             /\ UNCHANGED <<cache, pending_links, types, links, resolveLog, store, alt, stream, lazy, proxy, mgmt>>

\* the keys written and deleted: the hash key uid, which Token.user embeds,
\* and the name of the link field
WriteKeys == {"uid"} \cup LinkNames

\* instance[key] = value
ItemSetItem ==
  \E o \in DOMAIN objs, key \in WriteKeys, value \in Vals :
    Outcome(Item_setitem(Registry, objs, o, key, value), "setitem", o, key, value)

\* del instance[key]
ItemDelItem ==
  \E o \in DOMAIN objs, key \in WriteKeys :
    Outcome(Item_delitem(Registry, objs, o, key), "delitem", o, key, 0)

\* instance.user
LinkGet ==
  \E o \in DOMAIN objs, name \in LinkNames :
    /\ types[objs[o].type].links[name] # 0
    /\ LET r == LinkFieldProperty_get(Registry, objs, store, o, name)
       IN  /\ Len(r.objs) <= MaxObjs
           /\ Outcome(r, "get_link", o, name, 0)

\* instance.user = related
LinkSet ==
  \E o \in DOMAIN objs, name \in LinkNames, related \in DOMAIN objs :
    /\ types[objs[o].type].links[name] # 0
    /\ Outcome(LinkFieldProperty_set(Registry, objs, o, name, related),
               "set_link", o, name, related)

\* del instance.user
LinkDel ==
  \E o \in DOMAIN objs, name \in LinkNames :
    /\ types[objs[o].type].links[name] # 0
    /\ Outcome(LinkFieldProperty_delete(Registry, objs, o, name), "del_link", o, name, 0)

\* cls.items on a declared item type
ManagerGet ==
  \E t \in DOMAIN types :
    /\ lastOp.op # "manager"
    /\ Outcome(manager_get(Registry, objs, t, DefaultManager), "manager", t, DefaultManager, 0)

NextInst ==
  ItemInit \/ ItemSetItem \/ ItemDelItem \/ LinkGet \/ LinkSet \/ LinkDel \/ ManagerGet

SpecInst == InitInst /\ [][NextInst]_vars

(***************************************************************************)
(* Item.__eq__, __ne__ and __hash__.  pk and the items of get_keys() raise *)
(* KeyError when a key field is not set; isinstance is decided first.      *)
(***************************************************************************)
RECURSIVE issubclass(_, _, _)
issubclass(reg, ts, c) ==
  IF ts = <<>> THEN FALSE
  ELSE Head(ts) = c \/ issubclass(reg, reg.types[Head(ts)].bases \o Tail(ts), c)

isinstance(reg, os, o, c) == issubclass(reg, <<os[o].type>>, c)

\* mutant: instances are compared by all of their data
Item_eq_all_data(reg, os, a, b) ==
  IF ~isinstance(reg, os, b, os[a].type) THEN [error |-> "none", value |-> FALSE]
  ELSE [error |-> "none", value |-> os[a].data = os[b].data]

Item_eq(reg, os, a, b) ==
  IF ~isinstance(reg, os, b, os[a].type) THEN [error |-> "none", value |-> FALSE]
  ELSE IF ~HasPk(reg, os, a) \/ ~HasPk(reg, os, b) THEN [error |-> "KeyError", value |-> FALSE]
  ELSE [error |-> "none", value |-> pk(reg, os, a) = pk(reg, os, b)]

Item_ne(reg, os, a, b) ==
  [Item_eq(reg, os, a, b) EXCEPT !.value = (Item_eq(reg, os, a, b).error = "none" /\ ~@)]

\* mutant: the method of the left operand is always the one called
py_eq_left(reg, os, a, b) == Item_eq(reg, os, a, b)

\* a == b: the rich comparison calls the __eq__ of the right operand first
\* when its class is a proper subclass of the left operand's; __eq__ never
\* returns NotImplemented, so the first call decides
py_eq(reg, os, a, b) ==
  IF os[a].type # os[b].type /\ isinstance(reg, os, b, os[a].type)
  THEN Item_eq(reg, os, b, a)
  ELSE Item_eq(reg, os, a, b)

\* a != b, in the same way with __ne__
py_ne(reg, os, a, b) ==
  IF os[a].type # os[b].type /\ isinstance(reg, os, b, os[a].type)
  THEN Item_ne(reg, os, b, a)
  ELSE Item_ne(reg, os, a, b)

\* the tuple that __hash__ hashes: the (key, value) items of get_keys()
Item_hash(reg, os, o) ==
  IF ~HasPk(reg, os, o) THEN [error |-> "KeyError", value |-> <<>>]
  ELSE [error |-> "none",
        value |-> [i \in DOMAIN get_key_fields(reg, os[o].type) |->
                     <<get_key_fields(reg, os[o].type)[i], pk(reg, os, o)[i]>>]]

(***************************************************************************)
(* SpecEq: instances of declared item types are made and compared.         *)
(***************************************************************************)
\* class User: uid = HashKeyField(), token = ItemField() and
\* class Token: uid = HashKeyField(), token = RangeKeyField()
PlainUserDecl ==
  [name |-> "User", abstract |-> FALSE,
   keys |-> <<[name |-> "uid", role |-> "hash"], [name |-> "token", role |-> "plain"]>>,
   links |-> <<>>, bases |-> <<>>, table_name |-> NONE, app_name |-> NONE]
EqTokenDecl ==
  [name |-> "Token", abstract |-> FALSE, keys |-> KeysOf("Token"),
   links |-> <<>>, bases |-> <<>>, table_name |-> NONE, app_name |-> NONE]
\* class Token(User): token = ItemField()
SubTokenDecl(base) ==
  [name |-> "Token", abstract |-> FALSE, keys |-> <<[name |-> "token", role |-> "plain"]>>,
   links |-> <<>>, bases |-> <<base>>, table_name |-> NONE, app_name |-> NONE]

EqScenarios ==
  { <<PlainUserDecl, EqTokenDecl>>,
    <<UserDecl(FALSE), SubTokenDecl(1)>> }

InitEq ==
  /\ \E sc \in EqScenarios :
       LET reg == declare_all(EmptyRegistry, sc)
       IN  /\ cache = reg.cache
           /\ pending_links = reg.pending_links
           /\ types = reg.types
           /\ links = reg.links
           /\ resolveLog = reg.resolveLog
  /\ store = {}
  /\ objs = <<>>
  /\ lastOp = NoOp
  /\ alt = EmptyRegistry
  /\ stream = NoStream
  /\ proxy = NoProxy
  /\ mgmt = NoMgmt
  /\ lazy = NoLazy

EqData ==
  {[NoData EXCEPT !["uid"] = u, !["token"] = k] :
     u \in Vals \cup {Missing}, k \in Vals \cup {Missing}}

\* cls(uid=..., token=...)
EqItemInit ==
  /\ Len(objs) < MaxEqObjs
  /\ \E t \in DOMAIN types, data \in EqData :
       Outcome(Item_init(Registry, objs, t, data, FALSE, "user", 0), "init", t, "", 0)

\* a == b and a != b
ItemCompare ==
  \E a \in DOMAIN objs, b \in DOMAIN objs :
    /\ objs' = objs
    /\ lastOp' = [NoOp EXCEPT !.op = "eq", !.obj = a, !.arg = b,
                             !.error = py_eq(Registry, objs, a, b).error,
                             !.value = <<py_eq(Registry, objs, a, b).value,
                                         py_ne(Registry, objs, a, b).value>>]
    /\ UNCHANGED <<cache, pending_links, types, links, resolveLog, store, alt, stream, lazy, proxy, mgmt>>

\* hash(a), hash(b)
ItemHash ==
  \E a \in DOMAIN objs, b \in DOMAIN objs :
    /\ objs' = objs
    /\ lastOp' = [NoOp EXCEPT !.op = "hash", !.obj = a, !.arg = b,
                             !.error = IF Item_hash(Registry, objs, a).error # "none"
                                       THEN Item_hash(Registry, objs, a).error
                                       ELSE Item_hash(Registry, objs, b).error,
                             !.value = <<Item_hash(Registry, objs, a).value,
                                         Item_hash(Registry, objs, b).value>>]
    /\ UNCHANGED <<cache, pending_links, types, links, resolveLog, store, alt, stream, lazy, proxy, mgmt>>

NextEq == EqItemInit \/ ItemCompare \/ ItemHash

SpecEq == InitEq /\ [][NextEq]_vars

(***************************************************************************)
(* ReverseLinkManagerProperty.__get__ on an instance: the manager made for *)
(* the instance is stored in the instance's __dict__ under the name of the *)
(* reverse accessor and returned.                                          *)
(***************************************************************************)
ReverseLinkManagerProperty_get(os, o, l) ==
  Done([os EXCEPT ![o].managers = @ \cup {l}], 0, 0)

(***************************************************************************)
(* item.save(): the item is put in the table of its class, where it        *)
(* replaces the item with the same key; an item without a value for a key  *)
(* field is refused by the table.                                          *)
(***************************************************************************)
Item_save(reg, os, st, o) ==
  IF ~HasPk(reg, os, o) THEN [store |-> st, error |-> "ValidationException"]
  ELSE [store |-> {x \in st : ~(/\ x.type = os[o].type
                                /\ \A i \in DOMAIN get_key_fields(reg, x.type) :
                                     x.data[get_key_fields(reg, x.type)[i]] = pk(reg, os, o)[i])}
                  \cup {[type |-> os[o].type, data |-> os[o].data]},
        error |-> "none"]

(***************************************************************************)
(* AbstractLinkedItemManager.create(kwdata) on the manager that the        *)
(* reverse link property of link l gives for the instance `parent`.        *)
(* primary_keys is parent.get_keys(), a dict by the names of the parent's  *)
(* key fields, and is read under the names of core_keys, the embedded key  *)
(* fields of the link.                                                     *)
(***************************************************************************)
CreateOutcome(os, st, error, names, message, result) ==
  [objs |-> os, store |-> st, error |-> error, names |-> names,
   message |-> message, result |-> result]

\* the loop over core_keys: kwdata with the missing values filled in
RECURSIVE create_core_keys(_, _, _, _, _, _, _)
create_core_keys(reg, os, parent, core_keys, kwdata, item_name, link_name) ==
  IF core_keys = <<>> THEN [error |-> "none", names |-> "", message |-> <<>>, kwdata |-> kwdata]
  ELSE LET core_key == Head(core_keys)
           key_fields == get_key_fields(reg, os[parent].type)
       IN  IF \A i \in DOMAIN key_fields : key_fields[i] # core_key
           THEN [error |-> "KeyError", names |-> core_key, message |-> <<>>, kwdata |-> kwdata]
           ELSE LET primary_key == os[parent].data[core_key]
                IN  IF kwdata[core_key] = Missing
                    THEN create_core_keys(reg, os, parent, Tail(core_keys),
                                          [kwdata EXCEPT ![core_key] = primary_key],
                                          item_name, link_name)
                    ELSE IF kwdata[core_key] # primary_key
                    THEN [error |-> "ValueError", names |-> core_key,
                          message |-> <<item_name, core_key, kwdata[core_key], link_name, primary_key>>,
                          kwdata |-> kwdata]
                    ELSE create_core_keys(reg, os, parent, Tail(core_keys), kwdata,
                                          item_name, link_name)

\* link.cache_set(item, self.instance) once the item c.result is saved
create_cached(os, st, c, sv, parent, link_name) ==
  IF sv.error # "none" THEN CreateOutcome(os, st, sv.error, "", <<>>, 0)
  ELSE CreateOutcome([c.objs EXCEPT ![c.result].cache[link_name] = parent],
                     sv.store, "none", "", <<>>, c.result)

\* BaseItemManager.create: item = self.table.item(kwdata); item.save()
create_saved(reg, os, st, c, parent, link_name) ==
  IF c.error # "none" THEN CreateOutcome(os, st, c.error, c.names, <<>>, 0)
  ELSE create_cached(os, st, c, Item_save(reg, c.objs, st, c.result), parent, link_name)

create_filled(reg, os, st, filled, parent, linked_model, link_name) ==
  IF filled.error # "none"
  THEN CreateOutcome(os, st, filled.error, filled.names, filled.message, 0)
  ELSE create_saved(reg, os, st,
                    Item_init(reg, os, linked_model, filled.kwdata, FALSE, link_name, 0),
                    parent, link_name)

create_linked(reg, os, st, parent, kwdata, linked_model, core_keys, link_name) ==
  IF ~HasPk(reg, os, parent) THEN CreateOutcome(os, st, "KeyError", "", <<>>, 0)
  ELSE create_filled(reg, os, st,
                     create_core_keys(reg, os, parent, core_keys, kwdata,
                                      reg.types[linked_model].name, link_name),
                     parent, linked_model, link_name)

AbstractLinkedItemManager_create(reg, os, st, parent, l, kwdata) ==
  create_linked(reg, os, st, parent, kwdata, reg.links[l].owner, reg.links[l].db_key,
                reg.types[reg.links[l].owner].link_keys[reg.links[l].db_key[1]])

(***************************************************************************)
(* SpecCreate: User and Token are declared, Token.user links a Token to    *)
(* its User with the reverse manager User.tokens; Users are made and       *)
(* Tokens are created through the reverse manager.                         *)
(***************************************************************************)
\* user = ItemLinkField(User, db_key=uid) and
\* user = ItemLinkField(User, db_key=token)
LinkDeclBy(target, db_key) ==
  [field_name |-> "user", target |-> target, db_key |-> db_key,
   linked_name |-> UNSET, is_single |-> FALSE]

CreateScenarios ==
  { <<UserDecl(FALSE),
      [TokenDecl(TypeRef(1), UNSET) EXCEPT !.links = <<LinkDeclBy(TypeRef(1), db_key)>>]>> :
      db_key \in {<<"uid">>, <<"token">>} }

InitCreate ==
  /\ \E sc \in CreateScenarios :
       LET reg == declare_all(EmptyRegistry, sc)
       IN  /\ cache = reg.cache
           /\ pending_links = reg.pending_links
           /\ types = reg.types
           /\ links = reg.links
           /\ resolveLog = reg.resolveLog
  /\ store = {}
  /\ objs = <<>>
  /\ lastOp = NoOp
  /\ alt = EmptyRegistry
  /\ stream = NoStream
  /\ proxy = NoProxy
  /\ mgmt = NoMgmt
  /\ lazy = NoLazy

\* the reverse link managers of the class of instance o: the links whose
\* ReverseLinkManagerProperty is an attribute of the class
ReverseManagers(reg, os, o) ==
  {l \in DOMAIN reg.links :
     /\ ~reg.links[l].is_single
     /\ reg.links[l].linked_name \in AttrNames
     /\ getattr_mro(reg, <<os[o].type>>, reg.links[l].linked_name) = ReverseAttr(l)}

\* User(uid=...)
CreateParent ==
  /\ Len(objs) < MaxCreateObjs
  /\ \E t \in DOMAIN types, u \in Vals \cup {Missing} :
       /\ types[t].name = "User"
       /\ Outcome(Item_init(Registry, objs, t, [NoData EXCEPT !["uid"] = u], FALSE, "user", 0),
               "init", t, "", 0)

CreateData ==
  {[NoData EXCEPT !["uid"] = u, !["token"] = k] :
     u \in Vals \cup {Missing}, k \in Vals \cup {Missing}}

\* parent.tokens.create(uid=..., token=...)
ManagerCreate ==
  /\ Len(objs) < MaxCreateObjs
  /\ \E parent \in DOMAIN objs, kwdata \in CreateData :
       \E l \in ReverseManagers(Registry, objs, parent) :
         LET r == AbstractLinkedItemManager_create(Registry, objs, store, parent, l, kwdata)
         IN  /\ objs' = ReverseLinkManagerProperty_get(r.objs, parent, l).objs
             /\ store' = r.store
             /\ lastOp' = [NoOp EXCEPT !.op = "create", !.obj = parent, !.arg = l,
                                      !.key = links[l].linked_name,
                                      !.result = r.result, !.error = r.error,
                                      !.names = r.names,
                                      !.value = [kwdata |-> kwdata, message |-> r.message]]
             /\ UNCHANGED <<cache, pending_links, types, links, resolveLog, alt, stream, lazy, proxy, mgmt>>

NextCreate == CreateParent \/ ManagerCreate

SpecCreate == InitCreate /\ [][NextCreate]_vars

(***************************************************************************)
(* vars(instance) and Item.__getstate__.  An entry of vars is the name of  *)
(* the attribute with its value: the data, the original data, the loaded   *)
(* flag, the instance in a link cache slot, or a reverse manager.          *)
(***************************************************************************)
Item_vars(reg, os, o) ==
  {[key |-> "_data", kind |-> "dict", dict |-> os[o].data],
   [key |-> "_orig_data", kind |-> "dict", dict |-> os[o].orig],
   [key |-> "_loaded", kind |-> "bool", bool |-> os[o].loaded]}
  \cup {[key |-> n, kind |-> "cache", item |-> os[o].cache[n]] :
          n \in {x \in LinkNames : os[o].cache[x] # 0}}
  \cup {[key |-> reg.links[l].linked_name, kind |-> "AbstractLinkedItemManager", link |-> l] :
          l \in os[o].managers}

\* mutant: the state is all of vars(instance)
Item_getstate_all_vars(reg, os, o) == Item_vars(reg, os, o)

Item_getstate(reg, os, o) ==
  {e \in Item_vars(reg, os, o) : e.kind # "AbstractLinkedItemManager"}

(***************************************************************************)
(* SpecPickle: User and Token as in tests/test_pickle.py; instances are    *)
(* made, links and reverse managers are read, and the state for pickling   *)
(* is taken.                                                               *)
(***************************************************************************)
InitPickle ==
  /\ LET reg == declare_all(EmptyRegistry, <<UserDecl(FALSE), TokenDecl(TypeRef(1), UNSET)>>)
     IN  /\ cache = reg.cache
         /\ pending_links = reg.pending_links
         /\ types = reg.types
         /\ links = reg.links
         /\ resolveLog = reg.resolveLog
         /\ store \in Stores(reg)
  /\ objs = <<>>
  /\ lastOp = NoOp
  /\ alt = EmptyRegistry
  /\ stream = NoStream
  /\ proxy = NoProxy
  /\ mgmt = NoMgmt
  /\ lazy = NoLazy

\* cls(uid=..., token=...)
PickleItemInit ==
  /\ Len(objs) < MaxPickleObjs
  /\ \E t \in DOMAIN types :
       \E data \in InitData(t) :
         Outcome(Item_init(Registry, objs, t, data, FALSE, "user", 0), "init", t, "", 0)

\* instance.user
PickleLinkGet ==
  \E o \in DOMAIN objs, name \in LinkNames :
    /\ types[objs[o].type].links[name] # 0
    /\ Len(LinkFieldProperty_get(Registry, objs, store, o, name).objs) <= MaxPickleObjs
    /\ Outcome(LinkFieldProperty_get(Registry, objs, store, o, name), "get_link", o, name, 0)

\* instance.tokens
ReverseGet ==
  \E o \in DOMAIN objs :
    \E l \in ReverseManagers(Registry, objs, o) :
      Outcome(ReverseLinkManagerProperty_get(objs, o, l), "get_reverse", o,
              links[l].linked_name, l)

\* instance.__getstate__()
GetState ==
  \E o \in DOMAIN objs :
    /\ objs' = objs
    /\ lastOp' = [NoOp EXCEPT !.op = "getstate", !.obj = o,
                             !.value = Item_getstate(Registry, objs, o)]
    /\ UNCHANGED <<cache, pending_links, types, links, resolveLog, store, alt, stream, lazy, proxy, mgmt>>

NextPickle == PickleItemInit \/ PickleLinkGet \/ ReverseGet \/ GetState

SpecPickle == InitPickle /\ [][NextPickle]_vars

(***************************************************************************)
(* The query of a reverse link manager.  LinkedItemQuery.name_child is     *)
(* read from the child's link_keys under the first embedded key field of   *)
(* the link.                                                               *)
(***************************************************************************)
name_child(reg, l) ==
  reg.types[reg.links[l].owner].link_keys[reg.links[l].db_key[1]]

\* AbstractLinkedItemManager.make_request: the filters <core key>__eq pair
\* core_keys with instance.pk by position
instance_filter(reg, os, parent, l) ==
  zip_query(reg.links[l].db_key, <<1, 2>>,
            [i \in {1, 2} |-> IF i \in DOMAIN pk(reg, os, parent)
                              THEN pk(reg, os, parent)[i] ELSE Missing])

\* the stored items of the child's table that pass the filters
Matching(reg, st, l, filter) ==
  {s \in st : /\ s.type = reg.links[l].owner
              /\ \A f \in FieldNames : filter[f] # Missing => s.data[f] = filter[f]}

\* the table answers in the order of the keys
Before(a, b) ==
  \/ a.data["uid"] < b.data["uid"]
  \/ a.data["uid"] = b.data["uid"] /\ a.data["token"] < b.data["token"]

RECURSIVE InKeyOrder(_)
InKeyOrder(S) ==
  IF S = {} THEN <<>>
  ELSE LET first == CHOOSE x \in S : \A y \in S \ {x} : Before(x, y)
       IN  <<first>> \o InKeyOrder(S \ {first})

\* QueryRequest._process_results for one result: the item is made as
\* loaded, and for each prefetched link name the related item, when the
\* table has it, is put in the cache slot of the link
RECURSIVE prefetch_links(_, _, _, _, _)
prefetch_links(reg, os, st, o, names) ==
  IF names = {} THEN os
  ELSE LET n == CHOOSE x \in names : TRUE
           r == LinkFieldProperty_get(reg, os, st, o, n)
       IN  prefetch_links(reg, IF r.error = "none" THEN r.objs ELSE os, st, o, names \ {n})

QueryRequest_process_results(reg, os, st, s, prefetched) ==
  prefetch_links(reg, Append(os, NewItem(s.type, s.data, TRUE)), st, Len(os) + 1,
                 IF prefetched.given
                 THEN {n \in prefetched.names : reg.types[s.type].links[n] # 0}
                 ELSE {})

\* AbstractLinkedItemQuery._populate_parent_cache for one item
populate_parent_cache(os, o, name, instance) ==
  IF os[o].cache[name] = 0 THEN [os EXCEPT ![o].cache[name] = instance] ELSE os

\* AbstractLinkedItemQuery._process_results for one result of the query q
AbstractLinkedItemQuery_process_results(reg, os, st, s, q) ==
  IF \/ ~q.links.given
     \/ q.links.names # {} /\ name_child(reg, q.link) \notin q.links.names
  THEN populate_parent_cache(QueryRequest_process_results(reg, os, st, s, q.links),
                             Len(os) + 1, name_child(reg, q.link), q.instance)
  ELSE QueryRequest_process_results(reg, os, st, s, q.links)

(***************************************************************************)
(* SpecQuery: User and Token are declared; Token links to its User by      *)
(* user alone, by user and owner under different embedded key fields, or   *)
(* by user and owner under the same embedded key field.  Users are made,   *)
(* a reverse link manager is queried and its results are read one by one.  *)
(***************************************************************************)
\* owner = ItemLinkField(User, db_key=..., linked_name=...)
OwnerLinkDecl(target, db_key, linked_name) ==
  [field_name |-> "owner", target |-> target, db_key |-> db_key,
   linked_name |-> linked_name, is_single |-> FALSE]

QueryScenarios ==
  { <<UserDecl(FALSE), TokenDecl(TypeRef(1), UNSET)>>,
    <<UserDecl(FALSE),
      [TokenDecl(TypeRef(1), UNSET) EXCEPT
         !.links = <<LinkDecl(TypeRef(1), UNSET, FALSE),
                     OwnerLinkDecl(TypeRef(1), <<"token">>, NONE)>>]>>,
    <<UserDecl(FALSE),
      [TokenDecl(TypeRef(1), UNSET) EXCEPT
         !.links = <<LinkDecl(TypeRef(1), UNSET, FALSE),
                     OwnerLinkDecl(TypeRef(1), <<"uid">>, "owned")>>]>> }

\* the tables at the start: the User 1 and some of the Tokens <<1, 1>>,
\* <<1, 2>> and <<2, 1>>
QueryStores(reg) ==
  { {[type |-> 1, data |-> [NoData EXCEPT !["uid"] = 1]]} \cup
    {[type |-> 2, data |-> [NoData EXCEPT !["uid"] = k[1], !["token"] = k[2]]] : k \in ks} :
      ks \in SUBSET {<<1, 1>>, <<1, 2>>, <<2, 1>>} }

InitQuery ==
  /\ \E sc \in QueryScenarios :
       LET reg == declare_all(EmptyRegistry, sc)
       IN  /\ cache = reg.cache
           /\ pending_links = reg.pending_links
           /\ types = reg.types
           /\ links = reg.links
           /\ resolveLog = reg.resolveLog
           /\ store \in QueryStores(reg)
  /\ objs = <<>>
  /\ lastOp = NoOp
  /\ alt = EmptyRegistry
  /\ stream = NoStream
  /\ proxy = NoProxy
  /\ mgmt = NoMgmt
  /\ lazy = NoLazy

\* User(uid=...)
QueryParent ==
  /\ objs = <<>>
  /\ \E u \in Vals :
       Outcome(Item_init(Registry, objs, 1, [NoData EXCEPT !["uid"] = u], FALSE, "user", 0),
               "init", 1, "", 0)

\* the arguments of prefetch: none (request.links is None) or some names
Prefetches ==
  {NoStream.links} \cup
  {[given |-> TRUE, names |-> ns] : ns \in (SUBSET LinkNames) \ {{}}}

\* parent.tokens.all() and parent.tokens.prefetch(names).all()
QueryAll ==
  /\ stream.instance = 0
  /\ \E parent \in DOMAIN objs, prefetch \in Prefetches :
       \E l \in ReverseManagers(Registry, objs, parent) :
         /\ prefetch.names \subseteq {n \in LinkNames : types[links[l].owner].links[n] # 0}
         /\ objs' = ReverseLinkManagerProperty_get(objs, parent, l).objs
         /\ stream' = [instance |-> parent, link |-> l, links |-> prefetch,
                       iterable |-> InKeyOrder(Matching(Registry, store, l,
                                      instance_filter(Registry, objs, parent, l)))]
         /\ lastOp' = [NoOp EXCEPT !.op = "query", !.obj = parent, !.arg = l,
                                  !.key = links[l].field_name]
  /\ UNCHANGED <<cache, pending_links, types, links, resolveLog, store, alt, lazy, proxy, mgmt>>

\* the next item of the results
StreamNext ==
  /\ stream.instance # 0
  /\ stream.iterable # <<>>
  /\ Len(objs) < MaxQueryObjs
  /\ objs' = AbstractLinkedItemQuery_process_results(Registry, objs, store,
                                                     Head(stream.iterable), stream)
  /\ stream' = [stream EXCEPT !.iterable = Tail(@)]
  /\ lastOp' = [NoOp EXCEPT !.op = "next", !.obj = stream.instance, !.arg = stream.link,
                           !.key = links[stream.link].field_name,
                           !.result = Len(objs) + 1]
  /\ UNCHANGED <<cache, pending_links, types, links, resolveLog, store, alt, lazy, proxy, mgmt>>

\* item.user and item.owner
QueryLinkGet ==
  \E o \in DOMAIN objs, name \in LinkNames :
    /\ types[objs[o].type].links[name] # 0
    /\ Len(LinkFieldProperty_get(Registry, objs, store, o, name).objs) <= MaxQueryObjs + 2
    /\ objs' = LinkFieldProperty_get(Registry, objs, store, o, name).objs
    /\ lastOp' = [NoOp EXCEPT
                    !.op = "get_link", !.obj = o, !.key = name,
                    !.result = LinkFieldProperty_get(Registry, objs, store, o, name).result,
                    !.lookups = LinkFieldProperty_get(Registry, objs, store, o, name).lookups,
                    !.error = LinkFieldProperty_get(Registry, objs, store, o, name).error,
                    !.names = LinkFieldProperty_get(Registry, objs, store, o, name).names]
    /\ UNCHANGED <<cache, pending_links, types, links, resolveLog, store, alt, stream, lazy, proxy, mgmt>>

NextQuery == QueryParent \/ QueryAll \/ StreamNext \/ QueryLinkGet

SpecQuery == InitQuery /\ [][NextQuery]_vars

(***************************************************************************)
(* structs.LazySequence and structs.LazyList.  A sequence object holds     *)
(*   results   the elements pulled so far, in order                        *)
(*   iterable  TRUE while the object holds its source iterator, FALSE once *)
(*             it is None                                                  *)
(*   rest      what the source iterator has not produced yet               *)
(*   of, pos   for the result of a concatenation: the sequence object the  *)
(*             source iterates first, and how many of its elements the     *)
(*             source has produced (-1 once it is past that object)        *)
(*   source    history: the content at construction                        *)
(***************************************************************************)
NewLazy(kind, source) ==
  [kind |-> kind, results |-> <<>>, iterable |-> TRUE, rest |-> source,
   of |-> 0, pos |-> 0, source |-> source]

\* the outcome of an operation on sequence objects
Returns(ls, value) == [lazy |-> ls, value |-> value, error |-> "none"]
Raises(ls, e) == [lazy |-> ls, value |-> <<>>, error |-> e]

\* next(iterable) gave the element x / raised StopIteration
pulled(ls, k, x) == [ls EXCEPT ![k].results = Append(@, x)]
stopped(ls, k) == [ls EXCEPT ![k].iterable = FALSE]

\* mutant: the element taken from the source is not kept in results
pull_rest_uncached(ls, k) ==
  IF ls[k].rest = <<>> THEN stopped(ls, k)
  ELSE [ls EXCEPT ![k].rest = Tail(@), ![k].pos = -1]

\* one element from the rest of the source of object k
pull_rest(ls, k) ==
  IF ls[k].rest = <<>> THEN stopped(ls, k)
  ELSE pulled([ls EXCEPT ![k].rest = Tail(@), ![k].pos = -1], k, Head(ls[k].rest))

\* one element from the iteration of object b, asked for its element p + 1,
\* by the source of object k
pull_of(ls, k, b, p) ==
  IF Len(ls[b].results) > p
  THEN pulled([ls EXCEPT ![k].pos = p + 1], k, ls[b].results[p + 1])
  ELSE pull_rest(ls, k)

\* advance: pull from the source until results holds n elements or the
\* source is exhausted, which sets iterable to None
RECURSIVE advance(_, _, _)
pull(ls, k) ==
  IF ls[k].of # 0 /\ ls[k].pos >= 0
  THEN pull_of(advance(ls, ls[k].of, ls[k].pos + 1), k, ls[k].of, ls[k].pos)
  ELSE pull_rest(ls, k)

advance(ls, k, n) ==
  IF ~ls[k].iterable \/ Len(ls[k].results) >= n THEN ls
  ELSE advance(pull(ls, k), k, n)

\* the whole source
RECURSIVE consume(_, _)
consume(ls, k) ==
  IF ~ls[k].iterable THEN ls ELSE consume(pull(ls, k), k)

\* bool(seq)
LazySequence_bool(ls, k) ==
  Returns(advance(ls, k, 1), Len(advance(ls, k, 1)[k].results) > 0)

\* len(seq)
LazySequence_len(ls, k) ==
  Returns(consume(ls, k), Len(consume(ls, k)[k].results))

\* seq[i], i counted from 0
getitem_of(ls, k, i) ==
  IF i < Len(ls[k].results) THEN Returns(ls, ls[k].results[i + 1])
  ELSE Raises(ls, "IndexError")

\* mutant: the whole source is pulled
LazySequence_getitem_consume(ls, k, i) == getitem_of(consume(ls, k), k, i)

LazySequence_getitem(ls, k, i) == getitem_of(advance(ls, k, i + 1), k, i)

\* seq[i:j]
Min(a, b) == IF a < b THEN a ELSE b
Slice(seq, i, j) == SubSeq(seq, i + 1, Min(j, Len(seq)))
getslice_of(ls, k, i, j) == Returns(ls, Slice(ls[k].results, i, j))

LazySequence_getslice(ls, k, i, j) == getslice_of(advance(ls, k, j), k, i, j)

\* the position (from 1) of the first x at or after position p, pulling one
\* element at a time; 0 when the source ends without one
RECURSIVE search(_, _, _, _)
search(ls, k, x, p) ==
  IF p <= Len(ls[k].results)
  THEN IF ls[k].results[p] = x THEN Returns(ls, p) ELSE search(ls, k, x, p + 1)
  ELSE IF ~ls[k].iterable THEN Returns(ls, 0)
  ELSE search(pull(ls, k), k, x, p)

\* x in seq
contains_of(r) == Returns(r.lazy, r.value # 0)
LazySequence_contains(ls, k, x) == contains_of(search(ls, k, x, 1))

\* mutant: -1 is returned for a value that is not found
index_of_minus_one(r) == Returns(r.lazy, r.value - 1)

\* seq.index(x)
index_of(r) ==
  IF r.value = 0 THEN Raises(r.lazy, "ValueError") ELSE Returns(r.lazy, r.value - 1)

\* mutant: the source is pulled whole before the search
LazySequence_index_consume(ls, k, x) == index_of(search(consume(ls, k), k, x, 1))

LazySequence_index(ls, k, x) == index_of(search(ls, k, x, 1))

\* seq.count(x)
Occurrences(seq, x) == Cardinality({p \in DOMAIN seq : seq[p] = x})
count_of(ls, k, x) == Returns(ls, Occurrences(ls[k].results, x))

\* mutant: the elements pulled so far are counted
LazySequence_count_results(ls, k, x) == count_of(ls, k, x)

LazySequence_count(ls, k, x) == count_of(consume(ls, k), k, x)

\* list(seq): the iteration to its end
LazySequence_iter(ls, k) == Returns(consume(ls, k), consume(ls, k)[k].results)

\* seq + other: a sequence of the type of seq over chain(seq, other)
LazySequence_add(ls, k, other) ==
  [lazy |-> Append(ls, [kind |-> ls[k].kind, results |-> <<>>, iterable |-> TRUE,
                        rest |-> other, of |-> k, pos |-> 0,
                        source |-> consume(ls, k)[k].results \o other]),
   value |-> Len(ls) + 1, error |-> "none"]

\* mutant: the elements of seq are pulled when the sum is made
LazySequence_radd_lazy(ls, k, other) == Returns(ls, other \o ls[k].results)

\* other + seq, other a list
LazySequence_radd(ls, k, other) ==
  Returns(consume(ls, k), other \o consume(ls, k)[k].results)

\* results[i:j] = values
setslice_of(ls, k, i, j, values) ==
  Returns([ls EXCEPT ![k].results =
             Slice(@, 0, i) \o values \o Slice(@, Min(j, Len(@)), Len(@))], <<>>)

\* mutant: the whole source is pulled before the change
LazyList_setslice_consume(ls, k, i, j, values) ==
  setslice_of(consume(ls, k), k, i, j, values)

\* seq[i:j] = values, i <= j
LazyList_setslice(ls, k, i, j, values) ==
  setslice_of(advance(ls, k, j), k, i, j, values)

\* del seq[i:j]
LazyList_delslice(ls, k, i, j) == LazyList_setslice(ls, k, i, j, <<>>)

\* seq.insert(i, x)
LazyList_insert(ls, k, i, x) == LazyList_setslice(ls, k, i, i, <<x>>)

\* seq.pop(i)
pop_of(ls, k, i) ==
  IF i < Len(ls[k].results)
  THEN [setslice_of(ls, k, i, i + 1, <<>>) EXCEPT !.value = ls[k].results[i + 1]]
  ELSE Raises(ls, "IndexError")
LazyList_pop(ls, k, i) == pop_of(advance(ls, k, i + 1), k, i)

\* seq.remove(x)
remove_of(r, k) ==
  IF r.value = 0 THEN Raises(r.lazy, "ValueError")
  ELSE setslice_of(r.lazy, k, r.value - 1, r.value, <<>>)
LazyList_remove(ls, k, x) == remove_of(search(ls, k, x, 1), k)

\* mutant: the source is pulled whole and the elements are added to results
LazyList_extend_eager(ls, k, values) ==
  Returns([consume(ls, k) EXCEPT ![k].results = @ \o values], <<>>)

\* seq.extend(values): while the object holds its source iterator the
\* elements are chained to it; once iterable is None they go to results
LazyList_extend(ls, k, values) ==
  IF ls[k].iterable THEN Returns([ls EXCEPT ![k].rest = @ \o values], <<>>)
  ELSE Returns([ls EXCEPT ![k].results = @ \o values], <<>>)

\* seq.reverse()
Reversed(seq) == [p \in DOMAIN seq |-> seq[Len(seq) + 1 - p]]
reverse_of(ls, k) == Returns([ls EXCEPT ![k].results = Reversed(@)], <<>>)

\* mutant: the elements pulled so far are reversed
LazyList_reverse_results(ls, k) == reverse_of(ls, k)

LazyList_reverse(ls, k) == reverse_of(consume(ls, k), k)

\* seq.sort()
RECURSIVE Sorted(_)
Sorted(seq) ==
  IF seq = <<>> THEN <<>>
  ELSE LET p == CHOOSE q \in DOMAIN seq : \A o \in DOMAIN seq : seq[q] <= seq[o]
       IN  <<seq[p]>> \o Sorted(SubSeq(seq, 1, p - 1) \o SubSeq(seq, p + 1, Len(seq)))
sort_of(ls, k) == Returns([ls EXCEPT ![k].results = Sorted(@)], <<>>)
LazyList_sort(ls, k) == sort_of(consume(ls, k), k)

(***************************************************************************)
(* SpecLazy: a LazySequence or a LazyList is made over a source of at most *)
(* MaxLen elements, and the operations of the classes are applied to it.   *)
(***************************************************************************)
Elems == {1, 2}
Kinds == {"LazySequence", "LazyList"}

RECURSIVE SeqsUpTo(_)
SeqsUpTo(n) ==
  IF n = 0 THEN {<<>>}
  ELSE SeqsUpTo(n - 1) \cup
       {Append(q, x) : q \in {y \in SeqsUpTo(n - 1) : Len(y) = n - 1}, x \in Elems}

InitLazy ==
  /\ cache = EmptyRegistry.cache
  /\ pending_links = EmptyRegistry.pending_links
  /\ types = <<>>
  /\ links = <<>>
  /\ resolveLog = <<>>
  /\ objs = <<>>
  /\ store = {}
  /\ lastOp = NoOp
  /\ alt = EmptyRegistry
  /\ stream = NoStream
  /\ proxy = NoProxy
  /\ mgmt = NoMgmt
  /\ \E kind \in Kinds, source \in SeqsUpTo(MaxLen) : lazy = <<NewLazy(kind, source)>>

\* the arguments of an operation: indexes i and j, a value x, a list
NoArgs == [i |-> 0, j |-> 0, x |-> 0, other |-> <<>>]

LazyOutcome(r, op, k, args) ==
  /\ lazy' = r.lazy
  /\ lastOp' = [NoOp EXCEPT !.op = op, !.obj = k, !.arg = args,
                           !.value = r.value, !.error = r.error]
  /\ UNCHANGED <<cache, pending_links, types, links, resolveLog, objs, store, alt, stream, proxy, mgmt>>

Mutable(k) == lazy[k].kind = "LazyList"

Indexes == 0..MaxLen
Others == {<<>>, <<1>>, <<2, 1>>}

LazyBool ==
  \E k \in DOMAIN lazy : LazyOutcome(LazySequence_bool(lazy, k), "bool", k, NoArgs)

LazyLen ==
  \E k \in DOMAIN lazy : LazyOutcome(LazySequence_len(lazy, k), "len", k, NoArgs)

LazyGetItem ==
  \E k \in DOMAIN lazy, i \in Indexes :
    LazyOutcome(LazySequence_getitem(lazy, k, i), "getitem", k, [NoArgs EXCEPT !.i = i])

LazyGetSlice ==
  \E k \in DOMAIN lazy, i \in Indexes, j \in Indexes :
    /\ i <= j
    /\ LazyOutcome(LazySequence_getslice(lazy, k, i, j), "getslice", k,
                   [NoArgs EXCEPT !.i = i, !.j = j])

LazyContains ==
  \E k \in DOMAIN lazy, x \in Elems :
    LazyOutcome(LazySequence_contains(lazy, k, x), "contains", k, [NoArgs EXCEPT !.x = x])

LazyIndex ==
  \E k \in DOMAIN lazy, x \in Elems :
    LazyOutcome(LazySequence_index(lazy, k, x), "index", k, [NoArgs EXCEPT !.x = x])

LazyCount ==
  \E k \in DOMAIN lazy, x \in Elems :
    LazyOutcome(LazySequence_count(lazy, k, x), "count", k, [NoArgs EXCEPT !.x = x])

LazyIter ==
  \E k \in DOMAIN lazy : LazyOutcome(LazySequence_iter(lazy, k), "iter", k, NoArgs)

\* a change that leaves at most MaxLen elements
Fits(r, k) == Len(consume(r.lazy, k)[k].results) <= MaxLen

ListInsert ==
  \E k \in DOMAIN lazy, i \in Indexes, x \in Elems :
    /\ Mutable(k)
    /\ Fits(LazyList_insert(lazy, k, i, x), k)
    /\ LazyOutcome(LazyList_insert(lazy, k, i, x), "insert", k,
                   [NoArgs EXCEPT !.i = i, !.x = x])

ListSetSlice ==
  \E k \in DOMAIN lazy, i \in Indexes, j \in Indexes, values \in Others \ {<<>>} :
    /\ Mutable(k)
    /\ i <= j
    /\ Fits(LazyList_setslice(lazy, k, i, j, values), k)
    /\ LazyOutcome(LazyList_setslice(lazy, k, i, j, values), "setslice", k,
                   [NoArgs EXCEPT !.i = i, !.j = j, !.other = values])

ListDelSlice ==
  \E k \in DOMAIN lazy, i \in Indexes, j \in Indexes :
    /\ Mutable(k)
    /\ i <= j
    /\ LazyOutcome(LazyList_delslice(lazy, k, i, j), "delslice", k,
                   [NoArgs EXCEPT !.i = i, !.j = j])

ListPop ==
  \E k \in DOMAIN lazy, i \in Indexes :
    /\ Mutable(k)
    /\ LazyOutcome(LazyList_pop(lazy, k, i), "pop", k, [NoArgs EXCEPT !.i = i])

ListRemove ==
  \E k \in DOMAIN lazy, x \in Elems :
    /\ Mutable(k)
    /\ LazyOutcome(LazyList_remove(lazy, k, x), "remove", k, [NoArgs EXCEPT !.x = x])

ListExtend ==
  \E k \in DOMAIN lazy, values \in Others \ {<<>>} :
    /\ Mutable(k)
    /\ Fits(LazyList_extend(lazy, k, values), k)
    /\ LazyOutcome(LazyList_extend(lazy, k, values), "extend", k,
                   [NoArgs EXCEPT !.other = values])

ListReverse ==
  \E k \in DOMAIN lazy :
    /\ Mutable(k)
    /\ LazyOutcome(LazyList_reverse(lazy, k), "reverse", k, NoArgs)

ListSort ==
  \E k \in DOMAIN lazy :
    /\ Mutable(k)
    /\ LazyOutcome(LazyList_sort(lazy, k), "sort", k, NoArgs)

NextLazy ==
  \/ LazyBool \/ LazyLen \/ LazyGetItem \/ LazyGetSlice \/ LazyContains
  \/ LazyIndex \/ LazyCount \/ LazyIter
  \/ ListInsert \/ ListSetSlice \/ ListDelSlice \/ ListPop \/ ListRemove
  \/ ListExtend \/ ListReverse \/ ListSort

SpecLazy == InitLazy /\ [][NextLazy]_vars

(***************************************************************************)
(* SpecConcat: a LazySequence or a LazyList is made over a source of at    *)
(* most two elements; it is read, concatenated with lists on either side,  *)
(* and the sequences that the concatenations give are read.                *)
(***************************************************************************)
InitConcat ==
  /\ cache = EmptyRegistry.cache
  /\ pending_links = EmptyRegistry.pending_links
  /\ types = <<>>
  /\ links = <<>>
  /\ resolveLog = <<>>
  /\ objs = <<>>
  /\ store = {}
  /\ lastOp = NoOp
  /\ alt = EmptyRegistry
  /\ stream = NoStream
  /\ proxy = NoProxy
  /\ mgmt = NoMgmt
  /\ \E kind \in Kinds, source \in SeqsUpTo(2) : lazy = <<NewLazy(kind, source)>>

ConcatGetItem ==
  \E k \in DOMAIN lazy, i \in Indexes :
    LazyOutcome(LazySequence_getitem(lazy, k, i), "getitem", k, [NoArgs EXCEPT !.i = i])

ConcatIter ==
  \E k \in DOMAIN lazy : LazyOutcome(LazySequence_iter(lazy, k), "iter", k, NoArgs)

LazyAdd ==
  /\ Len(lazy) < MaxLazy
  /\ \E k \in DOMAIN lazy, other \in Others :
       LazyOutcome(LazySequence_add(lazy, k, other), "add", k,
                   [NoArgs EXCEPT !.other = other])

LazyRAdd ==
  \E k \in DOMAIN lazy, other \in Others :
    LazyOutcome(LazySequence_radd(lazy, k, other), "radd", k,
                [NoArgs EXCEPT !.other = other])

NextConcat == ConcatGetItem \/ ConcatIter \/ LazyAdd \/ LazyRAdd

SpecConcat == InitConcat /\ [][NextConcat]_vars

(***************************************************************************)
(* db.DynamoDBConnectionProxy.  The proxy state holds                      *)
(*   engine       conf.settings.ENGINE                                     *)
(*   threadlocal  for each thread the attribute dynamo of _threadlocal:    *)
(*                a connection, 0 while the thread has none                *)
(*   made         the connections _make_dynamo returned (connection id =   *)
(*                index), each with the thread that made it                *)
(*   pc           where each thread is in get_connection: "idle", or       *)
(*                "except" after the AttributeError of the first read      *)
(*   accessed     history: the threads that went through __getattr__ or    *)
(*                __setattr__ of the proxy                                 *)
(***************************************************************************)
Threads == 1..MaxThreads
Engines == {"aws", "local", "other"}

\* mutant: _threadlocal is an object that all threads share
threadlocal_dynamo_shared(p, t) ==
  IF \E u \in Threads : p.threadlocal[u] # 0
  THEN p.threadlocal[CHOOSE u \in Threads : p.threadlocal[u] # 0]
  ELSE 0

\* cls._threadlocal.dynamo as the thread t sees it (0: AttributeError)
threadlocal_dynamo(p, t) == p.threadlocal[t]

\* _make_dynamo: a new connection, or ConfigurationValueError
make_dynamo(p, t) ==
  IF p.engine \in {"aws", "local"}
  THEN [proxy |-> [p EXCEPT !.made = Append(@, t)], result |-> Len(p.made) + 1,
        error |-> "none"]
  ELSE [proxy |-> p, result |-> 0, error |-> "ConfigurationValueError"]

\* get_connection, the try: the connection of the thread is returned, or
\* the AttributeError takes the thread to the except clause
get_connection_try(p, t) ==
  IF threadlocal_dynamo(p, t) # 0
  THEN [proxy |-> [p EXCEPT !.accessed = @ \cup {t}],
        result |-> threadlocal_dynamo(p, t), error |-> "none"]
  ELSE [proxy |-> [p EXCEPT !.accessed = @ \cup {t}, !.pc[t] = "except"],
        result |-> 0, error |-> "none"]

\* get_connection, the except clause: the connection made is stored in the
\* thread-local storage and what the storage then holds is returned
get_connection_stored(r, t) ==
  IF r.error # "none" THEN [r EXCEPT !.proxy.pc[t] = "idle"]
  ELSE [proxy |-> [r.proxy EXCEPT !.threadlocal[t] = r.result, !.pc[t] = "idle"],
        result |-> threadlocal_dynamo([r.proxy EXCEPT !.threadlocal[t] = r.result], t),
        error |-> "none"]
get_connection_except(p, t) == get_connection_stored(make_dynamo(p, t), t)

(***************************************************************************)
(* SpecProxy: the threads read and write attributes through the proxy in   *)
(* any interleaving.                                                       *)
(***************************************************************************)
InitProxy ==
  /\ cache = EmptyRegistry.cache
  /\ pending_links = EmptyRegistry.pending_links
  /\ types = <<>>
  /\ links = <<>>
  /\ resolveLog = <<>>
  /\ objs = <<>>
  /\ store = {}
  /\ lastOp = NoOp
  /\ alt = EmptyRegistry
  /\ stream = NoStream
  /\ lazy = NoLazy
  /\ mgmt = NoMgmt
  /\ \E engine \in Engines :
       proxy = [engine |-> engine, threadlocal |-> [t \in Threads |-> 0], made |-> <<>>,
                pc |-> [t \in Threads |-> "idle"], accessed |-> {}]

ProxyOutcome(r, op, t, key) ==
  /\ proxy' = r.proxy
  /\ lastOp' = [NoOp EXCEPT !.op = op, !.obj = t, !.key = key,
                           !.result = r.result, !.error = r.error]
  /\ UNCHANGED <<cache, pending_links, types, links, resolveLog, objs, store, alt,
                 stream, lazy, mgmt>>

\* connection.<name> and connection.<name> = value in thread t, up to the
\* return of the stored connection or the AttributeError
ProxyAccess ==
  \E t \in Threads, name \in {"getattr", "setattr"} :
    /\ proxy.pc[t] = "idle"
    /\ Len(proxy.made) <= MaxThreads
    /\ ProxyOutcome(get_connection_try(proxy, t), "try", t, name)

\* the except clause of get_connection in thread t
ProxyConnect ==
  \E t \in Threads :
    /\ proxy.pc[t] = "except"
    /\ ProxyOutcome(get_connection_except(proxy, t), "except", t, "")

NextProxy == ProxyAccess \/ ProxyConnect

SpecProxy == InitProxy /\ [][NextProxy]_vars

(***************************************************************************)
(* db: the bulk flows over the tables of the declared items (iterstatus,   *)
(* iterdestroy, itertruncate).  The management state holds                 *)
(*   tables  _tables(): the tables in the order loading.cache gives them   *)
(*   db      what the storage holds for each table: status ("ABSENT" for a *)
(*           table that does not exist) and number of items                *)
(*   flow    the generator that runs ("none" before the first)             *)
(*   pos     the number of tables the generator has gone through           *)
(*   out     the pairs (table_name, status) yielded so far                 *)
(*   error   the error the generator raised, "none" while it has not       *)
(*   calls   the calls made to the storage, in order, each with the error  *)
(*           it raised ("none": it returned)                               *)
(*   flows   the number of generators started                              *)
(* A call to the storage fails with ResourceNotFoundException for a table  *)
(* that does not exist, and may fail with any other error at any time.     *)
(***************************************************************************)
MgmtTables == 1..MaxTables
table_name(t) == t
Faults == {"none", "ProvisionedThroughputExceededException", "IOError"}
TableStatuses == {"ABSENT", "CREATING", "ACTIVE"}

Orders(S) ==
  {q \in [1..Cardinality(S) -> S] : \A i, j \in 1..Cardinality(S) : q[i] = q[j] => i = j}

\* the error a call to the storage for table t raises ("none": it returns)
storage_error(g, t, fault) ==
  IF fault # "none" THEN fault
  ELSE IF g.db[t].status = "ABSENT" THEN "ResourceNotFoundException"
  ELSE "none"

\* mutant: every error of the storage is taken for a missing table
not_found_any(exc) == exc # "none"

\* except JSONResponseError as exc: exc.error_code == 'ResourceNotFoundException'
\* (IOError is no JSONResponseError and passes the except clause)
not_found(exc) == exc = "ResourceNotFoundException"

called(g, t, call, exc) == [g EXCEPT !.calls = Append(@, <<t, call, exc>>)]
yield(g, t, status) ==
  [g EXCEPT !.out = Append(@, <<table_name(t), status>>), !.pos = @ + 1]
raised(g, exc) == [g EXCEPT !.error = exc]

\* the try statement that the three generators share: the error of the call
\* gives 'NOT FOUND' or is raised again, no error gives the else clause
handled(g, t, exc, otherwise, status) ==
  IF exc = "none" THEN yield(otherwise, t, status)
  ELSE IF not_found(exc) THEN yield(g, t, "NOT FOUND")
  ELSE raised(g, exc)

\* iterstatus, one round of the loop: table.describe()
iterstatus_next(g, t, fault) ==
  handled(called(g, t, "describe", storage_error(g, t, fault)), t,
          storage_error(g, t, fault),
          called(g, t, "describe", "none"), g.db[t].status)

\* iterdestroy, one round of the loop: table.delete()
iterdestroy_next(g, t, fault) ==
  handled(called(g, t, "delete", storage_error(g, t, fault)), t,
          storage_error(g, t, fault),
          [called(g, t, "delete", "none") EXCEPT !.db[t] = [status |-> "ABSENT", items |-> 0]],
          "DELETED")

\* itertruncate, one round of the loop: table.scan() inside the batch, and
\* the batch written when the with statement is left with deletes in it
truncate_scanned(g, t, exc) == called(g, t, "scan", exc)
truncate_written(g, t, exc) ==
  IF g.db[t].items = 0 THEN truncate_scanned(g, t, "none")
  ELSE called(truncate_scanned(g, t, "none"), t, "batch_write", exc)
itertruncate_next(g, t, fault, fault2) ==
  IF storage_error(g, t, fault) # "none"
  THEN handled(truncate_scanned(g, t, storage_error(g, t, fault)), t,
               storage_error(g, t, fault), g, "")
  ELSE handled(truncate_written(g, t, storage_error(g, t, fault2)), t,
               IF g.db[t].items = 0 THEN "none" ELSE storage_error(g, t, fault2),
               [truncate_written(g, t, "none") EXCEPT !.db[t].items = 0], "TRUNCATED")

(***************************************************************************)
(* SpecMgmt: generators of the three flows are started and run to their    *)
(* end, one after the other, on any state of the storage.                  *)
(***************************************************************************)
InitMgmt ==
  /\ cache = EmptyRegistry.cache
  /\ pending_links = EmptyRegistry.pending_links
  /\ types = <<>>
  /\ links = <<>>
  /\ resolveLog = <<>>
  /\ objs = <<>>
  /\ store = {}
  /\ lastOp = NoOp
  /\ alt = EmptyRegistry
  /\ stream = NoStream
  /\ lazy = NoLazy
  /\ proxy = NoProxy
  /\ \E tables \in Orders(MgmtTables) :
     \E db \in [MgmtTables -> [status : TableStatuses, items : 0..1]] :
       /\ \A t \in MgmtTables : db[t].status = "ABSENT" => db[t].items = 0
       /\ mgmt = [tables |-> tables, db |-> db, flow |-> "none", pos |-> 0,
                  out |-> <<>>, error |-> "none", calls |-> <<>>, flows |-> 0]

Running == mgmt.flow # "none" /\ mgmt.error = "none" /\ mgmt.pos < Len(mgmt.tables)

MgmtOutcome(g, op, t) ==
  /\ mgmt' = g
  /\ lastOp' = [NoOp EXCEPT !.op = op, !.obj = t, !.error = g.error]
  /\ UNCHANGED <<cache, pending_links, types, links, resolveLog, objs, store, alt,
                 stream, lazy, proxy>>

\* iterstatus(), iterdestroy() or itertruncate() is called: a new generator
MgmtStart ==
  \E flow \in {"status", "destroy", "truncate"} :
    /\ ~Running
    /\ mgmt.flows < MaxFlows
    /\ MgmtOutcome([mgmt EXCEPT !.flow = flow, !.pos = 0, !.out = <<>>, !.error = "none",
                                !.calls = <<>>, !.flows = @ + 1], "start", 0)

MgmtStatus ==
  \E fault \in Faults :
    /\ Running /\ mgmt.flow = "status"
    /\ MgmtOutcome(iterstatus_next(mgmt, mgmt.tables[mgmt.pos + 1], fault),
                   "status", mgmt.tables[mgmt.pos + 1])

MgmtDestroy ==
  \E fault \in Faults :
    /\ Running /\ mgmt.flow = "destroy"
    /\ MgmtOutcome(iterdestroy_next(mgmt, mgmt.tables[mgmt.pos + 1], fault),
                   "destroy", mgmt.tables[mgmt.pos + 1])

MgmtTruncate ==
  \E fault \in Faults, fault2 \in Faults :
    /\ Running /\ mgmt.flow = "truncate"
    /\ MgmtOutcome(itertruncate_next(mgmt, mgmt.tables[mgmt.pos + 1], fault, fault2),
                   "truncate", mgmt.tables[mgmt.pos + 1])

NextMgmt == MgmtStart \/ MgmtStatus \/ MgmtDestroy \/ MgmtTruncate

SpecMgmt == InitMgmt /\ [][NextMgmt]_vars

(***************************************************************************)
(* db.build.  The management state holds                                   *)
(*   timeout, wait  the arguments of the call                              *)
(*   tables         the schema length of each table (1: hash key, 2: hash  *)
(*                  and range key), sorted by build                        *)
(*   pc             "call" before the call, "create" at the head of the    *)
(*                  for loop, "poll" at the head of the while loop, "sleep"*)
(*                  before time.sleep, "done" after the return, "raised"   *)
(*   table_number   the for loop's counter                                 *)
(*   count          the time the while loop has slept for the table        *)
(*   status         the TableStatus last described                         *)
(*   created        the tables create_table returned for                   *)
(*   error          the error build raised                                 *)
(***************************************************************************)
SchemaLengths == {1, 2}
TableLists == UNION {[1..n -> SchemaLengths] : n \in 0..MaxBuildTables}

\* sorted(_tables(), key=lambda table: len(table.schema))
sorted_by_schema(tables) == Sorted(tables)

\* build up to the for loop
build_call(b) ==
  IF b.timeout < 0 THEN [b EXCEPT !.pc = "raised", !.error = "ValueError"]
  ELSE [b EXCEPT !.pc = "create", !.tables = sorted_by_schema(@), !.table_number = 0]

\* the head of the for loop and create_table, which returns (exc = "none")
\* or raises
build_create(b, exc) ==
  IF b.table_number = Len(b.tables) THEN [b EXCEPT !.pc = "done"]
  ELSE IF exc = "JSONResponseError" THEN [b EXCEPT !.table_number = @ + 1]
  ELSE IF exc # "none" THEN [b EXCEPT !.table_number = @ + 1, !.pc = "raised", !.error = exc]
  ELSE [b EXCEPT !.table_number = @ + 1, !.created = @ \cup {b.table_number + 1},
                 !.count = 0, !.pc = "poll"]

\* the condition of the break
build_break(b, status) ==
  \/ status # "CREATING"
  \/ b.count >= b.timeout
  \/ b.tables[b.table_number] = 1
  \/ b.table_number = Len(b.tables)

\* while count <= timeout: describe, write, and break or go on to the sleep
build_poll(b, status, exc) ==
  IF b.count > b.timeout THEN [b EXCEPT !.pc = "create"]
  ELSE IF exc # "none" THEN [b EXCEPT !.pc = "raised", !.error = exc]
  ELSE IF build_break(b, status) THEN [b EXCEPT !.status = status, !.pc = "create"]
  ELSE [b EXCEPT !.status = status, !.pc = "sleep"]

\* the step slept
build_step(b) == IF b.count + b.wait <= b.timeout THEN b.wait ELSE b.timeout - b.count

\* time.sleep(step); count += step
build_sleep(b) == [b EXCEPT !.count = @ + build_step(b), !.pc = "poll"]

(***************************************************************************)
(* SpecBuild: one call of build, with any timeout from -1, any wait from   *)
(* 0, any list of tables, and a storage that gives any status at each      *)
(* describe and may fail at any call.  SpecBuildFair: the thread that      *)
(* runs build keeps running.                                               *)
(***************************************************************************)
InitBuild ==
  /\ cache = EmptyRegistry.cache
  /\ pending_links = EmptyRegistry.pending_links
  /\ types = <<>>
  /\ links = <<>>
  /\ resolveLog = <<>>
  /\ objs = <<>>
  /\ store = {}
  /\ lastOp = NoOp
  /\ alt = EmptyRegistry
  /\ stream = NoStream
  /\ lazy = NoLazy
  /\ proxy = NoProxy
  /\ \E timeout \in -1..MaxTimeout, wait \in 0..MaxWait, tables \in TableLists :
       mgmt = [timeout |-> timeout, wait |-> wait, tables |-> tables, pc |-> "call",
               table_number |-> 0, count |-> 0, status |-> "", created |-> {},
               error |-> "none"]

BuildOutcome(b, op) ==
  /\ mgmt' = b
  /\ lastOp' = [NoOp EXCEPT !.op = op, !.obj = b.table_number, !.error = b.error]
  /\ UNCHANGED <<cache, pending_links, types, links, resolveLog, objs, store, alt,
                 stream, lazy, proxy>>

BuildCall == mgmt.pc = "call" /\ BuildOutcome(build_call(mgmt), "call")

BuildCreate ==
  \E exc \in {"none", "JSONResponseError", "IOError"} :
    mgmt.pc = "create" /\ BuildOutcome(build_create(mgmt, exc), "create")

BuildPoll ==
  \E status \in {"CREATING", "ACTIVE"}, exc \in {"none", "JSONResponseError"} :
    mgmt.pc = "poll" /\ BuildOutcome(build_poll(mgmt, status, exc), "poll")

BuildSleep == mgmt.pc = "sleep" /\ BuildOutcome(build_sleep(mgmt), "sleep")

NextBuild == BuildCall \/ BuildCreate \/ BuildPoll \/ BuildSleep

SpecBuild == InitBuild /\ [][NextBuild]_vars

SpecBuildFair == SpecBuild /\ WF_vars(NextBuild)

(***************************************************************************)
(* SpecInherit: User, Token with the link user to User (with or without a  *)
(* reverse accessor, concrete or abstract), and subtypes of the types that *)
(* hold the link (declared under the name Token), which declare the link   *)
(* again or leave it to be inherited, are declared in any order.           *)
(***************************************************************************)
\* the link user as the body of Token declares it
InheritLinks(n) ==
  {LinkDecl(tg, ln, sg) :
     tg \in {NameRef("User")} \cup {TypeRef(t) : t \in {x \in 1..n : types[x].name = "User"}},
     ln \in {UNSET, NONE, "owned"}, sg \in BOOLEAN}

\* class Sub(<base>): pass, or with the link user declared again
SubDecls ==
  {[name |-> "Token", abstract |-> a, keys |-> <<>>, links |-> ls, bases |-> <<p>>,
    table_name |-> NONE, app_name |-> NONE] :
     a \in BOOLEAN, ls \in {<<>>, <<LinkDecl(NameRef("User"), "owned", FALSE)>>},
     p \in {x \in DOMAIN types : types[x].declared /\ types[x].links["user"] # 0}}

InheritDecls ==
  {UserDecl(FALSE)}
  \cup {[name |-> "Token", abstract |-> a, keys |-> KeysOf("Token"), links |-> <<ld>>,
         bases |-> <<>>, table_name |-> NONE, app_name |-> NONE] :
          a \in BOOLEAN, ld \in InheritLinks(Len(types))}
  \cup SubDecls

DeclareInherit ==
  /\ Len(types) < MaxTypes
  /\ \E d \in InheritDecls :
       LET r == DeclarativeItemBase_new(Registry, d)
       IN  /\ SetRegistry(r.reg)
           /\ lastOp' = [NoOp EXCEPT !.op = "declare", !.obj = Len(types) + 1,
                                    !.error = r.error, !.decl = d]
  /\ UNCHANGED <<objs, store, alt, stream, lazy, proxy, mgmt>>

NextInherit == DeclareInherit

SpecInherit == Init /\ [][NextInherit]_vars

(***************************************************************************)
(* SpecAttrs: User and Token are declared, Token with the link user whose  *)
(* embedded key is given by name or by the field object uid of the same    *)
(* class body, and the declared attributes of a class are processed in any *)
(* order that attrs.items() may give: the key fields in their order and    *)
(* the link after any number of them.                                      *)
(***************************************************************************)
AttrsDecls(n) ==
  {UserDecl(a) : a \in BOOLEAN}
  \cup {[name |-> "Token", abstract |-> a, keys |-> KeysOf("Token"),
          links |-> <<[ld EXCEPT !.db_key = k]>>,
          bases |-> <<>>, table_name |-> NONE, app_name |-> NONE] :
           a \in BOOLEAN, k \in {<<"uid">>, <<FieldRef("uid")>>, <<FieldRef("token")>>},
           ld \in {x \in LinkDecls(n) : ~x.is_single /\ x.linked_name # "items"}}

DeclareAttrs ==
  /\ Len(types) < MaxTypes
  /\ \E d \in AttrsDecls(Len(types)) :
     \E p \in 0..Len(d.keys) :
       LET r == DeclarativeItemBase_new_at(Registry, d, p)
       IN  /\ SetRegistry(r.reg)
           /\ lastOp' = [NoOp EXCEPT !.op = "declare", !.obj = Len(types) + 1, !.arg = p,
                                    !.error = r.error, !.decl = d]
  /\ UNCHANGED <<objs, store, alt, stream, lazy, proxy, mgmt>>

NextAttrs == DeclareAttrs

SpecAttrs == Init /\ [][NextAttrs]_vars

(***************************************************************************)
(* SpecOrder: the owner of a link (Token, link user to the name "User")    *)
(* and its target (User) are declared in both orders: owner first in the   *)
(* registry of the variables, target first in the registry alt, where the  *)
(* owner names its target or refers to the class.  The same instances are  *)
(* then constructed and the same links read under both registries.         *)
(***************************************************************************)
AltRegistry ==
  [cache |-> alt.cache, pending_links |-> alt.pending_links, types |-> alt.types,
   links |-> alt.links, resolveLog |-> alt.resolveLog]

WithRegistry(reg, os, op) ==
  [cache |-> reg.cache, pending_links |-> reg.pending_links, types |-> reg.types,
   links |-> reg.links, resolveLog |-> reg.resolveLog, objs |-> os, lastOp |-> op]

\* the class registered or declared with the name
TypeId(reg, name) == CHOOSE t \in DOMAIN reg.types : reg.types[t].name = name

\* the table contents of the run alt: those of store, the classes taken by name
AltStore ==
  {[type |-> TypeId(AltRegistry, types[s.type].name), data |-> s.data] : s \in store}

OwnerDecls ==
  {[name |-> "Token", abstract |-> a, keys |-> KeysOf("Token"), links |-> <<ld>>,
    bases |-> <<>>, table_name |-> NONE, app_name |-> NONE] :
     a \in BOOLEAN,
     ld \in {x \in LinkDecls(0) :
               /\ x.target = NameRef("User")
               /\ x.linked_name = UNSET \/ ~x.is_single}}

\* the owner's declaration with the target given by reference
ByReference(d, t) == [d EXCEPT !.links[1].target = TypeRef(t)]

InitOrder ==
  /\ cache = EmptyRegistry.cache
  /\ pending_links = EmptyRegistry.pending_links
  /\ types = <<>>
  /\ links = <<>>
  /\ resolveLog = <<>>
  /\ objs = <<>>
  /\ store = {}
  /\ lastOp = NoOp
  /\ alt = WithRegistry(EmptyRegistry, <<>>, NoOp)
  /\ stream = NoStream
  /\ proxy = NoProxy
  /\ mgmt = NoMgmt
  /\ lazy = NoLazy

\* class Token(Item): user = ItemLinkField('User', db_key=uid)
OrderDeclareOwner ==
  /\ Len(types) = 0
  /\ \E d \in OwnerDecls :
       LET r == DeclarativeItemBase_new(Registry, d)
       IN  /\ SetRegistry(r.reg)
           /\ lastOp' = [NoOp EXCEPT !.op = "declare", !.obj = 1,
                                    !.error = r.error, !.decl = d]
  /\ UNCHANGED <<objs, store, alt, stream, lazy, proxy, mgmt>>

\* class User(Item) after Token; in alt: class User(Item), then class Token
OrderDeclareTarget ==
  /\ Len(types) = 1 /\ lastOp.op = "declare" /\ lastOp.error = "none"
  /\ \E a \in BOOLEAN, by_reference \in BOOLEAN :
       LET d == UserDecl(a)
           r == DeclarativeItemBase_new(Registry, d)
           a1 == DeclarativeItemBase_new(EmptyRegistry, d)
           owner == IF by_reference THEN ByReference(lastOp.decl, 1) ELSE lastOp.decl
           a2 == DeclarativeItemBase_new(a1.reg, owner)
       IN  /\ SetRegistry(r.reg)
           /\ lastOp' = [NoOp EXCEPT !.op = "declare", !.obj = 2,
                                    !.error = r.error, !.decl = d]
           /\ alt' = WithRegistry(a2.reg, <<>>,
                       [NoOp EXCEPT !.op = "declare", !.obj = 2,
                                    !.error = a2.error, !.decl = owner])
           /\ store' \in (IF r.error = "none" THEN Stores(r.reg) ELSE {{}})
  /\ UNCHANGED <<objs, stream, lazy, proxy, mgmt>>

\* both class statements of both runs have returned
BothDeclared ==
  /\ Len(types) = 2 /\ Len(alt.types) = 2
  /\ lastOp.op = "declare" => lastOp.error = "none"
  /\ alt.lastOp.op = "declare" => alt.lastOp.error = "none"

OpOf(r, op, o, key, arg, loaded) ==
  [NoOp EXCEPT !.op = op, !.obj = o, !.key = key, !.arg = arg, !.loaded = loaded,
               !.result = r.result, !.lookups = r.lookups,
               !.error = r.error, !.names = r.names]

\* cls(...) for the class named cn, under both registries
OrderItemInit ==
  /\ BothDeclared
  /\ Len(objs) < MaxObjs
  /\ \E cn \in TypeNames, related \in {0} \cup DOMAIN objs :
       \E data \in InitData(TypeId(Registry, cn)),
          loaded \in (IF related = 0 THEN {FALSE} ELSE BOOLEAN) :
         LET t == TypeId(Registry, cn)
             u == TypeId(AltRegistry, cn)
             r == Item_init(Registry, objs, t, data, loaded, "user", related)
             a == Item_init(AltRegistry, alt.objs, u, data, loaded, "user", related)
         IN  /\ objs' = r.objs
             /\ lastOp' = OpOf(r, "init", t, "user", related, loaded)
             /\ alt' = [alt EXCEPT !.objs = a.objs,
                                   !.lastOp = OpOf(a, "init", u, "user", related, loaded)]
  /\ UNCHANGED <<cache, pending_links, types, links, resolveLog, store, stream, lazy, proxy, mgmt>>

\* instance.user, under both registries
OrderLinkGet ==
  /\ BothDeclared
  /\ \E o \in (DOMAIN objs) \cap (DOMAIN alt.objs), name \in LinkNames :
       /\ types[objs[o].type].links[name] # 0
       /\ alt.types[alt.objs[o].type].links[name] # 0
       /\ LET r == LinkFieldProperty_get(Registry, objs, store, o, name)
              a == LinkFieldProperty_get(AltRegistry, alt.objs, AltStore, o, name)
          IN  /\ Len(r.objs) <= MaxObjs /\ Len(a.objs) <= MaxObjs
              /\ objs' = r.objs
              /\ lastOp' = OpOf(r, "get_link", o, name, 0, FALSE)
              /\ alt' = [alt EXCEPT !.objs = a.objs,
                                    !.lastOp = OpOf(a, "get_link", o, name, 0, FALSE)]
  /\ UNCHANGED <<cache, pending_links, types, links, resolveLog, store, stream, lazy, proxy, mgmt>>

NextOrder == OrderDeclareOwner \/ OrderDeclareTarget \/ OrderItemInit \/ OrderLinkGet

SpecOrder == InitOrder /\ [][NextOrder]_vars

(***************************************************************************)
(* SpecKeys: item types are declared with every choice of key fields (uid  *)
(* and token, each absent, hash key or range key), processed in either     *)
(* order.                                                                  *)
(***************************************************************************)
KeyRoles == {"hash", "range"}

KeySeqs ==
  {<<>>}
  \cup {<<[name |-> n, role |-> r]>> : n \in FieldNames, r \in KeyRoles}
  \cup {ks \in {<<[name |-> n1, role |-> r1], [name |-> n2, role |-> r2]>> :
                   n1 \in FieldNames, n2 \in FieldNames, r1 \in KeyRoles, r2 \in KeyRoles} :
          ks[1].name # ks[2].name}

KeyDecls ==
  {[name |-> n, abstract |-> a, keys |-> ks, links |-> <<>>,
    bases |-> <<>>, table_name |-> NONE, app_name |-> NONE] :
     n \in TypeNames, a \in BOOLEAN, ks \in KeySeqs}

\* class <name>(Item): <key fields>
DeclareKeys ==
  /\ Len(types) < MaxKeyTypes
  /\ \E d \in KeyDecls :
       LET r == DeclarativeItemBase_new(Registry, d)
       IN  /\ SetRegistry(r.reg)
           /\ lastOp' = [NoOp EXCEPT !.op = "declare", !.obj = Len(types) + 1,
                                    !.error = r.error, !.decl = d]
  /\ UNCHANGED <<objs, store, alt, stream, lazy, proxy, mgmt>>

NextKeys == DeclareKeys

SpecKeys == Init /\ [][NextKeys]_vars

(***************************************************************************)
(* SpecMeta: item types are declared with Meta options (abstract, a table  *)
(* name, an app name) and with an earlier item type as their base.         *)
(***************************************************************************)
TableNames == {"tbl"}
AppNames == {"app"}

\* Meta: no table name (with or without an app name), or a table name
MetaOptions ==
  {[table_name |-> NONE, app_name |-> a] : a \in {NONE} \cup AppNames}
  \cup {[table_name |-> tn, app_name |-> NONE] : tn \in TableNames}

MetaKeys ==
  { <<>>,
    <<[name |-> "uid", role |-> "hash"]>>,
    <<[name |-> "token", role |-> "range"]>> }

\* the item types that can be a base: those whose class statement returned
Bases == {<<>>} \cup {<<p>> : p \in {x \in DOMAIN types : types[x].declared}}

\* declarations with Meta options (no base), and declarations with a base
\* and, for Token, the link user (no Meta options but abstract)
MetaDecls ==
  {[name |-> n, abstract |-> a, keys |-> <<[name |-> "uid", role |-> "hash"]>>,
    links |-> <<>>, bases |-> <<>>,
    table_name |-> mo.table_name, app_name |-> mo.app_name] :
     n \in TypeNames, a \in BOOLEAN, mo \in MetaOptions}
  \cup
  {d \in {[name |-> n, abstract |-> a, keys |-> ks, links |-> ls,
           bases |-> bs, table_name |-> NONE, app_name |-> NONE] :
            n \in TypeNames, a \in BOOLEAN, ks \in MetaKeys, bs \in Bases,
            ls \in {<<>>, <<LinkDecl(NameRef("User"), NONE, FALSE)>>}} :
     d.links # <<>> => d.name = "Token"}

\* class <name>(<base>): <key fields>; class Meta: ...
DeclareMeta ==
  /\ Len(types) < MaxMetaTypes
  /\ \E d \in MetaDecls :
       LET r == DeclarativeItemBase_new(Registry, d)
       IN  /\ SetRegistry(r.reg)
           /\ lastOp' = [NoOp EXCEPT !.op = "declare", !.obj = Len(r.reg.types),
                                    !.error = r.error, !.decl = d]
  /\ UNCHANGED <<objs, store, alt, stream, lazy, proxy, mgmt>>

NextMeta == DeclareMeta

SpecMeta == Init /\ [][NextMeta]_vars

(***************************************************************************)
(* Vocabulary of the claims about declarations.                            *)
(***************************************************************************)
Resolved(l) == links[l].item.kind = "type"

\* the step is a class declaration: the class NewT is new in the next state
Declaring == lastOp'.op = "declare" /\ Len(types') = Len(types) + 1
NewT == Len(types) + 1
NewLinks == (DOMAIN links') \ (DOMAIN links)

\* the classes on which the reverse link property of link l is installed
InstalledOn(tps, l) ==
  {t \in DOMAIN tps : \E a \in AttrNames : tps[t].attrs[a] = ReverseAttr(l)}

\* the declaration of link l, as written in the class body
DeclOf(l) == lastOp'.decl.links[l - Len(links)]

\* the pending entries that a concrete declaration of link l adds
EntriesOf(l) ==
  <<[kind |-> "link", link |-> l]>> \o
  (IF DeclOf(l).linked_name # NONE THEN <<[kind |-> "reverse", link |-> l]>> ELSE <<>>)

\* C5 as stated, for every owner: a link declared with a target name that is
\* not in the registry is added to the pending table under that name
C5_Original ==
  [][Declaring =>
       \A l \in NewLinks :
         (DeclOf(l).target.kind = "name" /\ cache[DeclOf(l).target.name] = 0)
         => /\ pending_links'[DeclOf(l).target.name] =
                 pending_links[DeclOf(l).target.name] \o EntriesOf(l)
            /\ links'[l].item = DeclOf(l).target
            /\ InstalledOn(types', l) = {}]_vars

\* C5 (amended): a link declared on a concrete item with a target name that is
\* not in the registry is appended, followed by its reverse link property if
\* one is requested, to the pending entry of that name and stays unresolved;
\* a link declared on an abstract item is not registered at all; and a link
\* that is unresolved stays so, with no reverse accessor on any class, in
\* every step that does not declare a concrete item of the awaited name (a
\* link to the name of its own item waits only until the end of the
\* declaration that holds it)
C5_PendingUntilDeclared ==
  [][/\ Declaring =>
          \A l \in NewLinks :
            (/\ DeclOf(l).target.kind = "name"
             /\ cache[DeclOf(l).target.name] = 0
             /\ (lastOp'.decl.abstract \/ DeclOf(l).target.name # lastOp'.decl.name))
            => /\ links'[l].item = DeclOf(l).target
               /\ InstalledOn(types', l) = {}
               /\ pending_links'[DeclOf(l).target.name] =
                    pending_links[DeclOf(l).target.name] \o
                    (IF lastOp'.decl.abstract THEN <<>> ELSE EntriesOf(l))
     /\ \A l \in DOMAIN links :
          (/\ ~Resolved(l)
           /\ ~(/\ Declaring
                /\ ~lastOp'.decl.abstract
                /\ lastOp'.decl.name = links[l].item.name))
          => /\ links'[l].item = links[l].item
             /\ InstalledOn(types', l) = {}]_vars

\* C5 witness: a concrete Token waits for "User" with its link and its
\* reverse link property, and no class carries the reverse accessor
C5_Witness ==
  \E l \in DOMAIN links :
    /\ ~types[links[l].owner].abstract
    /\ links[l].item = NameRef("User")
    /\ pending_links["User"] =
         <<[kind |-> "link", link |-> l], [kind |-> "reverse", link |-> l]>>
    /\ InstalledOn(types, l) = {}
    /\ Len(types) >= 2

\* the class against which the declaration of the new link l resolves it at
\* once (0: none, the link is left to the pending table or its item is abstract)
ImmediateTarget(l) ==
  IF lastOp'.decl.abstract THEN 0
  ELSE IF DeclOf(l).target.kind = "type" THEN DeclOf(l).target.id
  ELSE cache[DeclOf(l).target.name]

\* the new link l asks for a reverse accessor whose name is taken on its target
ImmediateCollision(l) ==
  /\ ImmediateTarget(l) # 0
  /\ DeclOf(l).linked_name # NONE
  /\ hasattr(Registry, ImmediateTarget(l), links'[l].linked_name)

\* the entries that wait for the new class when it is announced
Waiting ==
  LET n == lastOp'.decl.name
  IN  pending_links[n] \o
      (IF ~(DOMAIN lastOp'.decl.links = {})
          /\ DeclOf(Len(links) + 1).target = NameRef(n) /\ cache[n] = 0
       THEN EntriesOf(Len(links) + 1) ELSE <<>>)

\* the attributes that the class body and the defaults give the new class
OwnAttrs ==
  {lastOp'.decl.keys[i].name : i \in DOMAIN lastOp'.decl.keys}
  \cup {lastOp'.decl.links[i].field_name : i \in DOMAIN lastOp'.decl.links}
  \cup {DefaultManager, UpdateField}

\* the i-th waiting entry is a reverse link property whose name the new class
\* defines itself, or has been given by an earlier waiting entry
DrainCollision(i) ==
  /\ Waiting[i].kind = "reverse"
  /\ \/ links'[Waiting[i].link].linked_name \in OwnAttrs
     \/ \E j \in 1..(i - 1) :
          /\ Waiting[j].kind = "reverse"
          /\ links'[Waiting[j].link].linked_name = links'[Waiting[i].link].linked_name

\* the resolve_link calls that the step completed against the new class
NewResolves ==
  SelectSeq(SubSeq(resolveLog', Len(resolveLog) + 1, Len(resolveLog')),
            LAMBDA e : e.target = NewT)

\* entry a was registered in the pending table before entry b: links are
\* registered in the order of their creation, a link before its reverse
RegisteredBefore(a, b) ==
  \/ a.link < b.link
  \/ a.link = b.link /\ a.kind = "link" /\ b.kind = "reverse"

C7_ResolvedOnce ==
  \A l \in DOMAIN links :
    LET hits == {i \in DOMAIN resolveLog :
                   resolveLog[i].kind = "link" /\ resolveLog[i].link = l}
    IN  /\ Cardinality(hits) <= 1
        /\ \A i \in hits : links[l].item = TypeRef(resolveLog[i].target)
        /\ Cardinality(InstalledOn(types, l)) <= 1
        /\ \A t \in InstalledOn(types, l) : links[l].item = TypeRef(t)

\* C7 witness: a link was resolved against a class whose name has since been
\* declared again, and is still bound to the first class
C7_Witness ==
  \E l \in DOMAIN links :
    /\ Resolved(l)
    /\ \E i \in DOMAIN resolveLog : resolveLog[i].kind = "link" /\ resolveLog[i].link = l
    /\ cache[types[links[l].item.id].name] > links[l].item.id
    /\ links[l].owner < cache[types[links[l].item.id].name]

\* C8: a reverse link property resolved against a class on which its name is
\* already an attribute (hasattr) ends the declaration with ValueError and
\* leaves that attribute as it was; resolved against a class on which the name
\* is free, it becomes the attribute of that name
C8_ReverseCollision ==
  [][Declaring =>
       /\ \A t \in DOMAIN types : \A a \in AttrNames :
            hasattr(Registry, t, a) => types'[t].attrs[a] = types[t].attrs[a]
       /\ \A l \in NewLinks :
            (ImmediateTarget(l) # 0 /\ DeclOf(l).linked_name # NONE)
            => IF ImmediateCollision(l)
               THEN lastOp'.error = "ValueError"
               ELSE types'[ImmediateTarget(l)].attrs[links'[l].linked_name]
                      = ReverseAttr(l)
       /\ (~lastOp'.decl.abstract /\ \A l \in NewLinks : ~ImmediateCollision(l))
          => /\ \A a \in OwnAttrs : types'[NewT].attrs[a].kind # "reverse"
             /\ (\E i \in DOMAIN Waiting : DrainCollision(i))
                  <=> lastOp'.error = "ValueError"
             /\ \A i \in DOMAIN Waiting :
                  (Waiting[i].kind = "reverse" /\ \A j \in 1..i : ~DrainCollision(j))
                  => types'[NewT].attrs[links'[Waiting[i].link].linked_name]
                       = ReverseAttr(Waiting[i].link)]_vars

\* C8 witness: a declaration ended with ValueError because the reverse name
\* "items" of its link is the default manager of the target, which still is
\* the manager; another class carries a reverse accessor
C8_Witness ==
  /\ lastOp.op = "declare" /\ lastOp.error = "ValueError"
  /\ \E l \in DOMAIN links :
       /\ links[l].linked_name = "items" /\ Resolved(l)
       /\ types[links[l].item.id].attrs["items"] = Attr("manager")
       /\ InstalledOn(types, l) = {}
  /\ \E l \in DOMAIN links : InstalledOn(types, l) # {}

(***************************************************************************)
(* Vocabulary of the claims about instances.                               *)
(***************************************************************************)
\* the link field `name` of the class of instance o (declared: HasLink)
HasLink(o, name) == types[objs[o].type].links[name] # 0
FieldOf(o, name) == links[types[objs[o].type].links[name]]

\* key is one of the embedded key fields of the link
Embeds(field, key) == \E i \in DOMAIN field.db_key : field.db_key[i] = key

\* the instance has a value for every field of its primary key
KeysSet(o) ==
  \A i \in DOMAIN types[objs[o].type].keys :
    types[objs[o].type].keys[i].role \in {"hash", "range"}
    => objs[o].data[types[objs[o].type].keys[i].name] # Missing

\* C1 as stated: a write instance[k] = v to an embedded key field of a link
\* whose cache slot is populated succeeds and leaves the slot empty
C1_Original ==
  [][\A o \in DOMAIN objs : \A name \in LinkNames :
       (/\ lastOp'.op = "setitem" /\ lastOp'.obj = o
        /\ HasLink(o, name)
        /\ Embeds(FieldOf(o, name), lastOp'.key)
        /\ objs[o].cache[name] # 0)
       => /\ lastOp'.error = "none"
          /\ objs'[o].data[lastOp'.key] = lastOp'.arg
          /\ objs'[o].cache[name] = 0]_vars

\* C2 as stated: instance.link = related (related with its key set) followed
\* by a read of instance.link returns related and makes no lookup
C2_Original ==
  [][(/\ lastOp.op = "set_link"
      /\ KeysSet(lastOp.arg)
      /\ lastOp'.op = "get_link"
      /\ lastOp'.obj = lastOp.obj
      /\ lastOp'.key = lastOp.key)
     => /\ lastOp'.error = "none"
        /\ lastOp'.result = lastOp.arg
        /\ lastOp'.lookups = 0]_vars

\* C3: a read of a link whose cache slot is empty, whose target has a manager
\* and whose embedded key fields are set calls get_item exactly once, for the
\* key held in the embedded fields, and stores the instance it returns (a new
\* one) in the slot, or raises DoesNotExist when the table holds no such item;
\* a read of a link whose slot is populated returns the instance in the slot,
\* calls get_item not at all and changes nothing
C3_ReadCaches ==
  [][\A o \in DOMAIN objs : \A name \in LinkNames :
       (lastOp'.op = "get_link" /\ lastOp'.obj = o /\ lastOp'.key = name)
       => /\ objs[o].cache[name] # 0
             => /\ lastOp'.error = "none"
                /\ lastOp'.result = objs[o].cache[name]
                /\ lastOp'.lookups = 0
                /\ objs' = objs
          /\ (/\ objs[o].cache[name] = 0
              /\ FieldOf(o, name).item.kind = "type"
              /\ ~types[FieldOf(o, name).item.id].abstract
              /\ \A i \in DOMAIN FieldOf(o, name).db_key :
                   objs[o].data[FieldOf(o, name).db_key[i]] # Missing)
             => LET target == FieldOf(o, name).item.id
                    uid == objs[o].data[FieldOf(o, name).db_key[1]]
                    stored == \E s \in store : s.type = target /\ s.data["uid"] = uid
                IN  /\ lastOp'.lookups = 1
                    /\ stored
                       => /\ lastOp'.error = "none"
                          /\ lastOp'.result = Len(objs) + 1
                          /\ Len(objs') = Len(objs) + 1
                          /\ objs'[o].cache[name] = lastOp'.result
                          /\ objs'[lastOp'.result].type = target
                          /\ objs'[lastOp'.result].data["uid"] = uid
                          /\ objs'[lastOp'.result].loaded
                    /\ ~stored
                       => /\ lastOp'.error = "DoesNotExist"
                          /\ objs' = objs]_vars

\* C3 witness: a read answered from the cache slot that an earlier read
\* filled with the instance it had looked up
C3_Witness ==
  /\ lastOp.op = "get_link" /\ lastOp.error = "none"
  /\ lastOp.lookups = 0 /\ lastOp.result # 0
  /\ objs[lastOp.obj].cache[lastOp.key] = lastOp.result
  /\ objs[lastOp.result].loaded
  /\ lastOp.result > lastOp.obj

\* the link's target is still a name, or a class without a default manager
Unusable(field) ==
  \/ field.item.kind = "name"
  \/ field.item.kind = "type" /\ types[field.item.id].abstract

\* what the TypeError of an unresolved link can name
TargetName(field) ==
  IF field.item.kind = "name" THEN field.item.name ELSE types[field.item.id].name

\* C9 as stated: the error of reading an unresolved link names the field
C9_Original ==
  [][\A o \in DOMAIN objs : \A name \in LinkNames :
       (/\ lastOp'.op = "get_link" /\ lastOp'.obj = o /\ lastOp'.key = name
        /\ objs[o].cache[name] = 0
        /\ Unusable(FieldOf(o, name)))
       => /\ lastOp'.error = "TypeError"
          /\ lastOp'.names = name
          /\ lastOp'.lookups = 0]_vars

\* C9 (amended): reading a link whose cache slot is empty and whose target is
\* still a name, or a class without a default manager, raises TypeError, whose
\* message names the target the link was given (not the field), makes no
\* lookup and changes no instance
C9_UnresolvedRead ==
  [][\A o \in DOMAIN objs : \A name \in LinkNames :
       (/\ lastOp'.op = "get_link" /\ lastOp'.obj = o /\ lastOp'.key = name
        /\ objs[o].cache[name] = 0
        /\ Unusable(FieldOf(o, name)))
       => /\ lastOp'.error = "TypeError"
          /\ lastOp'.names = TargetName(FieldOf(o, name))
          /\ lastOp'.names # name
          /\ lastOp'.lookups = 0
          /\ objs' = objs]_vars

\* C9 witness: the link user of a Token was read while "User" was undeclared
C9_Witness ==
  /\ lastOp.op = "get_link" /\ lastOp.error = "TypeError" /\ lastOp.names = "User"
  /\ FieldOf(lastOp.obj, lastOp.key).item = NameRef("User")
  /\ objs[lastOp.obj].cache[lastOp.key] = 0

\* C10 as stated: a constructor call with loaded=True and a link field fails;
\* one with loaded=False and a link field (given an instance with its key set)
\* returns the new instance with the link assigned: the embedded key fields
\* hold the key of the given instance and the cache slot holds that instance
C10_Original ==
  [][(/\ lastOp'.op = "init"
      /\ lastOp'.arg # 0
      /\ ~types[lastOp'.obj].abstract
      /\ types[lastOp'.obj].links[lastOp'.key] # 0)
     => IF lastOp'.loaded
        THEN lastOp'.error = "TypeError" /\ objs' = objs
        ELSE (KeysSet(lastOp'.arg) /\ lastOp'.names # "undeclared")
             => /\ lastOp'.error = "none"
                /\ lastOp'.result = Len(objs) + 1
                /\ Len(objs') = Len(objs) + 1
                /\ objs'[lastOp'.result].cache[lastOp'.key] = lastOp'.arg
                /\ objs'[lastOp'.result].data["uid"] = objs[lastOp'.arg].data["uid"]]_vars

(***************************************************************************)
(* Vocabulary of the claim about the order of the declarations.            *)
(***************************************************************************)
\* a registry with its classes taken by name: the classes, the links, the
\* pending table and the names registered in loading.cache
TargetView(reg, item) ==
  IF item.kind = "type" THEN <<"type", reg.types[item.id].name>> ELSE <<"name", item.name>>

RegistryView(reg) ==
  [types |-> {[reg.types[t] EXCEPT
                 !.keys = [i \in DOMAIN reg.types[t].keys |->
                             [reg.types[t].keys[i] EXCEPT !.obj = reg.types[@].name]],
                 !.bases = [i \in DOMAIN reg.types[t].bases |->
                              reg.types[reg.types[t].bases[i]].name],
                 !.tables = {<<p[1], reg.types[p[2]].name>> :
                               p \in reg.types[t].tables},
                 !.sent = [i \in DOMAIN reg.types[t].sent |->
                             {<<p[1], reg.types[p[2]].name>> :
                                p \in reg.types[t].sent[i]}]] :
                t \in DOMAIN reg.types},
   links |-> [l \in DOMAIN reg.links |->
                [reg.links[l] EXCEPT !.owner = reg.types[@].name,
                                     !.item = TargetView(reg, @)]],
   pending_links |-> reg.pending_links,
   cache |-> [n \in TypeNames |->
                IF reg.cache[n] = 0 THEN "" ELSE reg.types[reg.cache[n]].name]]

\* the instances, their classes taken by name
ObjsView(reg, os) ==
  [o \in DOMAIN os |-> [os[o] EXCEPT !.type = reg.types[@].name]]

\* the outcome of the last constructor call or link read
OutcomeView(op) ==
  [op |-> op.op, result |-> op.result, lookups |-> op.lookups,
   error |-> op.error, names |-> op.names]

\* the link is bound to the class named target and, if a reverse link was
\* asked for, the reverse link property is an attribute of that class
BoundTo(reg, l, target) ==
  /\ reg.links[l].item.kind = "type"
  /\ reg.types[reg.links[l].item.id].name = target
  /\ reg.links[l].linked_name # NONE
     => reg.types[reg.links[l].item.id].attrs[reg.links[l].linked_name] = ReverseAttr(l)

SameInBothOrders ==
  /\ RegistryView(Registry) = RegistryView(AltRegistry)
  /\ ObjsView(Registry, objs) = ObjsView(AltRegistry, alt.objs)
  /\ lastOp.op # "declare" => OutcomeView(lastOp) = OutcomeView(alt.lastOp)

\* C4 as stated, for every owner and target: once both are declared the link
\* is bound to the target, with its reverse link property, as it is when the
\* target is declared first
C4_Original ==
  BothDeclared
  => /\ BoundTo(Registry, 1, "User")
     /\ SameInBothOrders

\* C4 (amended): for a concrete owner and a concrete target, once both class
\* statements have returned in both orders, the link is bound to the target
\* class and the reverse link property (if asked for) is installed on it in
\* both registries, the registries are equal class by class, and the same
\* constructor calls and link reads have the same outcomes; a class statement
\* fails in one order exactly if one fails in the other
C4_OrderIndependent ==
  (/\ Len(types) = 2 /\ Len(alt.types) = 2
   /\ ~types[1].abstract /\ ~types[2].abstract)
  => /\ (lastOp.op = "declare" /\ lastOp.error # "none")
        <=> (alt.lastOp.op = "declare" /\ alt.lastOp.error # "none")
     /\ BothDeclared
        => /\ BoundTo(Registry, 1, "User")
           /\ BoundTo(AltRegistry, 1, "User")
           /\ SameInBothOrders

\* C4 witness: Token.user, declared before User, was read and returned the
\* User found in the table, as it did with User declared first
C4_Witness ==
  /\ BothDeclared
  /\ lastOp.op = "get_link" /\ lastOp.error = "none" /\ lastOp.lookups = 1
  /\ lastOp.result # 0 /\ types[objs[lastOp.result].type].name = "User"
  /\ alt.lastOp.result = lastOp.result
  /\ types[1].name = "Token" /\ alt.types[1].name = "User"
  /\ resolveLog # <<>>

(***************************************************************************)
(* Vocabulary of the claims about key fields.                              *)
(***************************************************************************)
\* the declared key fields with the role
DeclaredWith(d, role) == {i \in DOMAIN d.keys : d.keys[i].role = role}

RoleOf(tp, name) ==
  tp.keys[CHOOSE i \in DOMAIN tp.keys : tp.keys[i].name = name].role

ClassMade == lastOp'.op = "declare" /\ Len(types') = Len(types) + 1

\* the step is a class statement that returned the class NewT
ClassDeclared == ClassMade /\ lastOp'.error = "none"

KeyEntries(tp) == {tp.keys[i] : i \in DOMAIN tp.keys}

\* the field objects in the field table of class t: those of its key fields
\* and its links
FieldObjects(tps, t) ==
  {<<"field", k.obj, k.name>> : k \in KeyEntries(tps[t])}
  \cup {<<"link", tps[t].links[n]>> : n \in {x \in LinkNames : tps[t].links[x] # 0}}

\* C15: a subtype holds, for every key field and link of its parent, a field
\* of that name (of the parent's kind unless the class body declares the
\* name); the field objects of a class are those of no other class; the
\* declaration of the subtype leaves the classes and links before it as
\* they were (but for the target of a link that waited for its name)
C15_InheritedCopies ==
  [][ClassDeclared
     => /\ \A i \in DOMAIN lastOp'.decl.bases :
             LET p == types[lastOp'.decl.bases[i]]
             IN  /\ \A k \in KeyEntries(p) :
                      \E e \in KeyEntries(types'[NewT]) :
                        /\ e.name = k.name
                        /\ k.name \notin DeclaredNames(lastOp'.decl) => e.role = k.role
                 /\ \A n \in LinkNames :
                      p.links[n] # 0
                      => /\ types'[NewT].links[n] # 0
                         /\ n \notin DeclaredNames(lastOp'.decl)
                            => /\ links'[types'[NewT].links[n]].db_key = links[p.links[n]].db_key
                               /\ links'[types'[NewT].links[n]].owner = NewT
        /\ \A t \in DOMAIN types : FieldObjects(types', NewT) \cap FieldObjects(types', t) = {}
        /\ \A t \in DOMAIN types : types'[t] = types[t]
        /\ \A l \in DOMAIN links : links'[l] = [links[l] EXCEPT !.item = links'[l].item]]_vars

\* C15 witness: a concrete subtype that declares uid has inherited the range
\* key token and the link user of its abstract parent
C15_Witness ==
  /\ lastOp.op = "declare" /\ lastOp.error = "none"
  /\ lastOp.decl.bases # <<>> /\ ~lastOp.decl.abstract
  /\ types[lastOp.decl.bases[1]].abstract
  /\ DeclaredNames(lastOp.decl) = {"uid"}
  /\ \E e \in KeyEntries(types[lastOp.obj]) : e.name = "token" /\ e.obj = lastOp.obj
  /\ \E e \in KeyEntries(types[lastOp.decl.bases[1]]) :
       e.name = "token" /\ e.obj = lastOp.decl.bases[1]
  /\ types[lastOp.obj].links["user"] \notin {0, types[lastOp.decl.bases[1]].links["user"]}

\* the table name that ItemMeta derives from the name of the item
DerivedTableName(d) ==
  LET plural == IF d.name = "User" THEN "users" ELSE "tokens"
  IN  IF d.app_name = NONE THEN plural
      ELSE IF d.name = "User" THEN "app.users" ELSE "app.tokens"

\* C16: the class statement of an abstract item with a table name raises
\* and makes no class; an abstract item without one has table name None; a
\* concrete item has the table name it was given or else the derived one;
\* no abstract class ever has a table name
C16_AbstractNoTable ==
  [][(lastOp'.op = "declare")
     => /\ (lastOp'.decl.abstract /\ lastOp'.decl.table_name # NONE)
           => /\ lastOp'.error = "TypeError"
              /\ types' = types /\ cache' = cache
        /\ (lastOp'.decl.abstract /\ lastOp'.decl.table_name = NONE)
           => ClassMade /\ types'[NewT].table_name = NONE
        /\ ~lastOp'.decl.abstract
           => /\ ClassMade
              /\ types'[NewT].table_name # NONE
              /\ types'[NewT].table_name =
                   IF lastOp'.decl.table_name # NONE THEN lastOp'.decl.table_name
                   ELSE DerivedTableName(lastOp'.decl)
        /\ \A t \in DOMAIN types' : types'[t].abstract => types'[t].table_name = NONE]_vars

\* C16 witness: an abstract declaration with a table name has raised after a
\* concrete item was given the table name derived from its name and app name
C16_Witness ==
  /\ lastOp.op = "declare" /\ lastOp.error = "TypeError"
  /\ lastOp.decl.abstract /\ lastOp.decl.table_name = "tbl"
  /\ Len(types) = 1 /\ types[1].table_name = "app.users"


(***************************************************************************)
(* C14. An abstract item type, and the base Item itself, raises on direct  *)
(* instantiation and no instance is made; reading the default manager of   *)
(* an abstract item type raises an AttributeError that names this type as  *)
(* abstract; a concrete subtype of an abstract type is instantiated        *)
(* normally from values of its declared fields, the new instance being of  *)
(* the subtype.                                                            *)
(***************************************************************************)
IsAbstract(t) == t = 0 \/ types[t].abstract
AbstractBase(t) == t # 0 /\ \E i \in DOMAIN types[t].bases : types[types[t].bases[i]].abstract
C14_AbstractItems ==
  [][ /\ (lastOp'.op = "init" /\ IsAbstract(lastOp'.obj))
         => /\ lastOp'.error = "TypeError"
            /\ lastOp'.names = "abstract"
            /\ objs' = objs
      /\ (lastOp'.op = "manager" /\ types[lastOp'.obj].abstract)
         => /\ lastOp'.error = "AttributeError"
            /\ lastOp'.names = types[lastOp'.obj].name
      /\ (lastOp'.op = "init" /\ lastOp'.arg = 0
            /\ ~IsAbstract(lastOp'.obj) /\ AbstractBase(lastOp'.obj))
         => /\ lastOp'.error = "none"
            /\ lastOp'.result = Len(objs) + 1
            /\ Len(objs') = Len(objs) + 1
            /\ objs'[lastOp'.result].type = lastOp'.obj ]_vars

\* a subtype of an abstract item has been instantiated after the abstract
\* item refused a read of its manager
C14_Witness ==
  /\ \E o \in DOMAIN objs : AbstractBase(objs[o].type) /\ objs[o].data["token"] # Missing
  /\ lastOp.op = "manager" /\ types[lastOp.obj].abstract /\ lastOp.error = "AttributeError"

(***************************************************************************)
(* C13. For two instances a and b of the same concrete item type whose     *)
(* key fields are all set: if their primary keys are equal, then a == b is *)
(* true, a != b is false and hash(a) = hash(b), whatever the values of     *)
(* their other fields; if their primary keys differ, a == b is false and   *)
(* a != b is true.                                                         *)
(***************************************************************************)
SameTypeWithPk(a, b) ==
  /\ objs[a].type = objs[b].type
  /\ HasPk(Registry, objs, a) /\ HasPk(Registry, objs, b)
C13_EqualByPk ==
  [][ /\ (lastOp'.op = "eq" /\ SameTypeWithPk(lastOp'.obj, lastOp'.arg))
         => /\ lastOp'.error = "none"
            /\ lastOp'.value[1] = (pk(Registry, objs, lastOp'.obj) = pk(Registry, objs, lastOp'.arg))
            /\ lastOp'.value[2] = ~lastOp'.value[1]
      /\ (lastOp'.op = "hash" /\ SameTypeWithPk(lastOp'.obj, lastOp'.arg)
            /\ pk(Registry, objs, lastOp'.obj) = pk(Registry, objs, lastOp'.arg))
         => /\ lastOp'.error = "none"
            /\ lastOp'.value[1] = lastOp'.value[2] ]_vars

\* two different instances with the same key and different other fields have
\* been found equal
C13_Witness ==
  /\ lastOp.op = "eq" /\ lastOp.obj # lastOp.arg
  /\ SameTypeWithPk(lastOp.obj, lastOp.arg)
  /\ pk(Registry, objs, lastOp.obj) = pk(Registry, objs, lastOp.arg)
  /\ objs[lastOp.obj].data # objs[lastOp.arg].data
  /\ lastOp.value = <<TRUE, FALSE>>

(***************************************************************************)
(* Vocabulary of the claims on create(): the step is parent.tokens.create  *)
(* of link lastOp'.arg with the keyword data lastOp'.value.kwdata.         *)
(***************************************************************************)
Creating == lastOp'.op = "create"
CreateLink == links[lastOp'.arg]
Given(key) == lastOp'.value.kwdata[key]
ParentPk == pk(Registry, objs, lastOp'.obj)
\* the parent has its key, and the keyword data give the key fields of the
\* new item that the link does not embed
Creatable ==
  /\ HasPk(Registry, objs, lastOp'.obj)
  /\ \A i \in DOMAIN get_key_fields(Registry, CreateLink.owner) :
       \/ \E j \in DOMAIN CreateLink.db_key :
            CreateLink.db_key[j] = get_key_fields(Registry, CreateLink.owner)[i]
       \/ Given(get_key_fields(Registry, CreateLink.owner)[i]) # Missing
\* the new item holds the parent's key in its embedded key fields, is in the
\* table, and its link cache holds the parent
CreatedFromParent ==
  /\ lastOp'.error = "none"
  /\ lastOp'.result = Len(objs) + 1
  /\ Len(objs') = Len(objs) + 1
  /\ objs'[lastOp'.result].type = CreateLink.owner
  /\ \A j \in DOMAIN CreateLink.db_key :
       objs'[lastOp'.result].data[CreateLink.db_key[j]] = ParentPk[j]
  /\ [type |-> CreateLink.owner, data |-> objs'[lastOp'.result].data] \in store'
  /\ objs'[lastOp'.result].cache[CreateLink.field_name] = lastOp'.obj

(***************************************************************************)
(* C17. create() on a one-to-many reverse manager, called without values   *)
(* for the embedded key fields of the link, fills each of them from the    *)
(* primary key of the parent, saves the new item and puts the parent in    *)
(* the link cache slot of the new item.                                    *)
(***************************************************************************)
C17_Original ==
  [][ (/\ Creating
       /\ Creatable
       /\ \A j \in DOMAIN CreateLink.db_key : Given(CreateLink.db_key[j]) = Missing)
      => CreatedFromParent ]_vars

(***************************************************************************)
(* C18. create() on a reverse manager with a value for an embedded key     *)
(* field that differs from the parent's key value raises a validation      *)
(* error that names the field, the given value and the parent's value, and *)
(* no item is made or saved; with values equal to the parent's the item is *)
(* created.                                                                *)
(***************************************************************************)
C18_Original ==
  [][ Creating =>
      /\ \A j \in DOMAIN CreateLink.db_key :
           (/\ HasPk(Registry, objs, lastOp'.obj)
            /\ \A k \in 1..(j - 1) : Given(CreateLink.db_key[k]) \in {Missing, ParentPk[k]}
            /\ Given(CreateLink.db_key[j]) \notin {Missing, ParentPk[j]})
           => /\ lastOp'.error = "ValueError"
              /\ lastOp'.value.message[2] = CreateLink.db_key[j]
              /\ lastOp'.value.message[3] = Given(CreateLink.db_key[j])
              /\ lastOp'.value.message[5] = ParentPk[j]
              /\ Len(objs') = Len(objs)
              /\ store' = store
      /\ (/\ Creatable
          /\ \A j \in DOMAIN CreateLink.db_key : Given(CreateLink.db_key[j]) = ParentPk[j])
         => CreatedFromParent ]_vars

(***************************************************************************)
(* C19. A write instance[k] = v or a delete del instance[k] of a field k   *)
(* empties the cache slot of every link of the instance that embeds k; a   *)
(* write or delete of a field that no link of the instance embeds leaves   *)
(* all cache slots of the instance as they were.                           *)
(***************************************************************************)
C19_Original ==
  [][ (lastOp'.op \in {"setitem", "delitem"} /\ lastOp'.key \in FieldNames)
      => \A name \in LinkNames :
           IF HasLink(lastOp'.obj, name) /\ Embeds(FieldOf(lastOp'.obj, name), lastOp'.key)
           THEN objs'[lastOp'.obj].cache[name] = 0
           ELSE objs'[lastOp'.obj].cache[name] = objs[lastOp'.obj].cache[name] ]_vars

(***************************************************************************)
(* C20. instance.link = target, for a target whose key fields are set,     *)
(* writes the values of the target's primary key, in order, to the         *)
(* embedded key fields of the link, and the cache slot of the link then    *)
(* holds the target.                                                       *)
(***************************************************************************)
C20_Original ==
  [][ (lastOp'.op = "set_link" /\ KeysSet(lastOp'.arg))
      => /\ lastOp'.error = "none"
         /\ \A i \in DOMAIN FieldOf(lastOp'.obj, lastOp'.key).db_key :
              i \in DOMAIN pk(Registry, objs, lastOp'.arg)
              => objs'[lastOp'.obj].data[FieldOf(lastOp'.obj, lastOp'.key).db_key[i]]
                   = pk(Registry, objs, lastOp'.arg)[i]
         /\ objs'[lastOp'.obj].cache[lastOp'.key] = lastOp'.arg ]_vars

(***************************************************************************)
(* C22. The state of an instance for pickling holds no reverse manager     *)
(* that is kept on the instance and holds everything else of the           *)
(* instance: its data, its original data, its loaded flag and its          *)
(* populated link cache slots.                                             *)
(***************************************************************************)
C22_StateWithoutManagers ==
  [][ lastOp'.op = "getstate"
      => LET o == lastOp'.obj
             state == lastOp'.value
         IN  /\ \A e \in state : e.kind # "AbstractLinkedItemManager"
             /\ \A l \in objs[o].managers : \A e \in state : e.key # links[l].linked_name
             /\ [key |-> "_data", kind |-> "dict", dict |-> objs[o].data] \in state
             /\ [key |-> "_orig_data", kind |-> "dict", dict |-> objs[o].orig] \in state
             /\ [key |-> "_loaded", kind |-> "bool", bool |-> objs[o].loaded] \in state
             /\ \A n \in LinkNames :
                  objs[o].cache[n] # 0
                  => [key |-> n, kind |-> "cache", item |-> objs[o].cache[n]] \in state ]_vars

\* the state was taken of a User whose reverse manager tokens had been read,
\* and of a Token whose link cache holds its User
C22_Witness ==
  /\ lastOp.op = "getstate"
  /\ \/ objs[lastOp.obj].managers # {}
     \/ \E n \in LinkNames : objs[lastOp.obj].cache[n] # 0
  /\ \E o \in DOMAIN objs : objs[o].managers # {}
  /\ \E o \in DOMAIN objs : \E n \in LinkNames : objs[o].cache[n] # 0

(***************************************************************************)
(* C21: every item that the query of a parent's reverse link manager       *)
(* yields, when no prefetch was asked for or the prefetched names do not   *)
(* include the link of the manager, has the cache slot of that link filled *)
(* with the parent, so that reading the link on it makes no lookup and     *)
(* gives the parent.                                                       *)
(***************************************************************************)
Yielding == lastOp'.op = "next"
WithoutPrefetchOf(name) ==
  ~stream.links.given \/ (stream.links.names # {} /\ name \notin stream.links.names)

C21_Original ==
  [][(Yielding /\ WithoutPrefetchOf(lastOp'.key))
       => /\ objs'[lastOp'.result].cache[lastOp'.key] = stream.instance
          /\ LinkFieldProperty_get(Registry, objs', store, lastOp'.result,
                                   lastOp'.key).lookups = 0
          /\ LinkFieldProperty_get(Registry, objs', store, lastOp'.result,
                                   lastOp'.key).result = stream.instance]_vars

(***************************************************************************)
(* Vocabulary of the claims on LazySequence and LazyList: the object of    *)
(* the step, its content (what results and the rest of the source hold     *)
(* together) and the arguments of the operation.                           *)
(***************************************************************************)
Seq1 == lazy[lastOp'.obj]
Seq1Next == lazy'[lastOp'.obj]
Content(q) == q.results \o q.rest
LazyOp(ops) == lastOp'.op \in ops
ArgI == lastOp'.arg.i
ArgJ == lastOp'.arg.j
ArgX == lastOp'.arg.x
\* the source was advanced by n elements and no further
Advanced(n) ==
  /\ Seq1Next.rest = SubSeq(Seq1.rest, n + 1, Len(Seq1.rest))
  /\ Seq1Next.iterable = Seq1.iterable
\* the position, from 1, of the first x in seq (0: none)
FirstAt(seq, x) ==
  IF \E p \in DOMAIN seq : seq[p] = x
  THEN CHOOSE p \in DOMAIN seq : seq[p] = x /\ \A q \in 1..(p - 1) : seq[q] # x
  ELSE 0
Max(a, b) == IF a > b THEN a ELSE b

(***************************************************************************)
(* C23: under the read-only operations of a LazySequence (bool, len,       *)
(* indexing, slicing, membership, index, count, iteration) results         *)
(* followed by what the source still holds is always the source given at   *)
(* construction, and so is what a full iteration gives; iterable is None   *)
(* only when the source holds nothing more, and from then on no operation  *)
(* changes the object: iterable stays None and the source is not advanced. *)
(***************************************************************************)
C23_ContentIsSource ==
  /\ [](lazy[1].kind = "LazySequence"
          => /\ Content(lazy[1]) = lazy[1].source
             /\ consume(lazy, 1)[1].results = lazy[1].source
             /\ ~lazy[1].iterable => lazy[1].rest = <<>>)
  /\ [][(lazy[1].kind = "LazySequence" /\ ~lazy[1].iterable) => lazy'[1] = lazy[1]]_vars

C23_Witness ==
  /\ lazy[1].kind = "LazySequence"
  /\ lastOp.op = "contains" /\ lastOp.value = TRUE
  /\ lazy[1].results = <<1, 2>> /\ lazy[1].rest = <<2>> /\ lazy[1].iterable

(***************************************************************************)
(* C24: seq[i] with i at or beyond the length of results pulls exactly the *)
(* elements up to index i: afterwards results holds the first i + 1        *)
(* elements, the rest of the source is unconsumed and the element at i is  *)
(* returned; seq[:n] leaves exactly the first n elements in results (all   *)
(* of them when there are fewer than n) and returns them.                  *)
(***************************************************************************)
C24_NoOverRead ==
  [][/\ (LazyOp({"getitem"}) /\ ArgI >= Len(Seq1.results) /\ lastOp'.error = "none")
          => /\ Seq1Next.results = SubSeq(Content(Seq1), 1, ArgI + 1)
             /\ Advanced(ArgI + 1 - Len(Seq1.results))
             /\ lastOp'.value = Content(Seq1)[ArgI + 1]
     /\ (LazyOp({"getslice"}) /\ ArgI = 0 /\ ArgJ >= Len(Seq1.results))
          => /\ Seq1Next.results = SubSeq(Content(Seq1), 1, Min(ArgJ, Len(Content(Seq1))))
             /\ Content(Seq1Next) = Content(Seq1)
             /\ ArgJ <= Len(Content(Seq1)) => Seq1Next.iterable = Seq1.iterable
             /\ lastOp'.value = Seq1Next.results]_vars

C24_Witness ==
  /\ lastOp.op = "getitem" /\ lastOp.arg.i = 1 /\ lastOp.error = "none" /\ lastOp.value = 2
  /\ lazy[1].source = <<1, 2, 1>>
  /\ lazy[1].results = <<1, 2>> /\ lazy[1].rest = <<1>> /\ lazy[1].iterable

(***************************************************************************)
(* C25: sort() and reverse() of a LazyList pull the whole source into      *)
(* results and set iterable to None; results is then the whole sequence    *)
(* in ascending order, resp. in the opposite order; iterable, once None,   *)
(* stays None.                                                             *)
(***************************************************************************)
C25_SortReverseDrain ==
  [][/\ LazyOp({"sort", "reverse"})
          => /\ ~Seq1Next.iterable /\ Seq1Next.rest = <<>>
             /\ Len(Seq1Next.results) = Len(Content(Seq1))
     /\ LazyOp({"reverse"})
          => \A p \in DOMAIN Seq1Next.results :
               Seq1Next.results[p] = Content(Seq1)[Len(Content(Seq1)) + 1 - p]
     /\ LazyOp({"sort"})
          => /\ \A x \in Elems :
                  Occurrences(Seq1Next.results, x) = Occurrences(Content(Seq1), x)
             /\ \A p \in DOMAIN Seq1Next.results, q \in DOMAIN Seq1Next.results :
                  p < q => Seq1Next.results[p] <= Seq1Next.results[q]
     /\ \A k \in DOMAIN lazy : ~lazy[k].iterable => ~lazy'[k].iterable]_vars

C25_Witness ==
  /\ lastOp.op = "sort"
  /\ lazy[1].source = <<2, 1, 2>>
  /\ lazy[1].results = <<1, 2, 2>> /\ ~lazy[1].iterable

(***************************************************************************)
(* C26: insert(i, x), seq[i:j] = values, del seq[i:j], pop(i) and          *)
(* remove(x) of a LazyList pull from the source only the elements that     *)
(* results lacks up to the index i, the end j of the slice, the index i of *)
(* the popped element, resp. the first x; when results already reaches     *)
(* that far nothing is pulled; the elements of the source beyond stay in   *)
(* the source and iterable stays set.                                      *)
(***************************************************************************)
Touched ==
  IF LazyOp({"insert"}) THEN ArgI
  ELSE IF LazyOp({"setslice", "delslice"}) THEN ArgJ
  ELSE IF LazyOp({"pop"}) THEN ArgI + 1
  ELSE FirstAt(Content(Seq1), ArgX)

C26_MutationsStayLazy ==
  [][(/\ LazyOp({"insert", "setslice", "delslice", "pop", "remove"})
      /\ lastOp'.error = "none"
      /\ Touched <= Len(Content(Seq1)))
       => /\ Advanced(Max(0, Touched - Len(Seq1.results)))
          /\ Touched <= Len(Seq1.results) => Seq1Next.rest = Seq1.rest]_vars

C26_Witness ==
  /\ lastOp.op = "pop" /\ lastOp.arg.i = 1 /\ lastOp.error = "none" /\ lastOp.value = 2
  /\ lazy[1].source = <<1, 2, 1>>
  /\ lazy[1].results = <<1>> /\ lazy[1].rest = <<1>> /\ lazy[1].iterable

(***************************************************************************)
(* C27: count(x) pulls the whole source into results, sets iterable to     *)
(* None and returns the number of x in the whole sequence; a count on a    *)
(* sequence whose iterable is None changes nothing: the source is          *)
(* exhausted once and later counts read results.                           *)
(***************************************************************************)
C27_CountExhaustsOnce ==
  [][LazyOp({"count"})
       => /\ ~Seq1Next.iterable /\ Seq1Next.rest = <<>>
          /\ Seq1Next.results = Content(Seq1)
          /\ lastOp'.value = Occurrences(Content(Seq1), ArgX)
          /\ ~Seq1.iterable => Seq1Next = Seq1]_vars

C27_Witness ==
  /\ lastOp.op = "count" /\ lastOp.arg.x = 2 /\ lastOp.value = 2
  /\ lazy[1].source = <<1, 2, 2>>
  /\ lazy[1].results = <<1, 2, 2>> /\ ~lazy[1].iterable

(***************************************************************************)
(* C28: x in seq and seq.index(x) look in results first: when x is there   *)
(* the source is not advanced; otherwise the source is pulled up to and    *)
(* including its first x and no further.  x in seq is true, and index      *)
(* returns the position of the first x in the sequence.                    *)
(***************************************************************************)
C28_SearchStopsAtMatch ==
  [][(LazyOp({"contains", "index"}) /\ FirstAt(Content(Seq1), ArgX) # 0)
       => /\ FirstAt(Seq1.results, ArgX) # 0 => Seq1Next = Seq1
          /\ FirstAt(Seq1.results, ArgX) = 0
               => /\ Advanced(FirstAt(Seq1.rest, ArgX))
                  /\ Seq1Next.results = SubSeq(Content(Seq1), 1, FirstAt(Content(Seq1), ArgX))
          /\ lastOp'.error = "none"
          /\ LazyOp({"contains"}) => lastOp'.value = TRUE
          /\ LazyOp({"index"}) => lastOp'.value = FirstAt(Content(Seq1), ArgX) - 1]_vars

C28_Witness ==
  /\ lastOp.op = "index" /\ lastOp.arg.x = 2 /\ lastOp.error = "none" /\ lastOp.value = 1
  /\ lazy[1].source = <<1, 2, 2>>
  /\ lazy[1].results = <<1, 2>> /\ lazy[1].rest = <<2>> /\ lazy[1].iterable

(***************************************************************************)
(* C29: seq.index(x) for an x that is nowhere in the sequence raises       *)
(* ValueError once the whole source is pulled: iterable is None and        *)
(* results holds the whole sequence, unchanged.                            *)
(***************************************************************************)
C29_IndexMissing ==
  [][(LazyOp({"index"}) /\ FirstAt(Content(Seq1), ArgX) = 0)
       => /\ lastOp'.error = "ValueError"
          /\ ~Seq1Next.iterable /\ Seq1Next.rest = <<>>
          /\ Seq1Next.results = Content(Seq1)]_vars

C29_Witness ==
  /\ lastOp.op = "index" /\ lastOp.arg.x = 2 /\ lastOp.error = "ValueError"
  /\ lazy[1].source = <<1, 1, 1>>
  /\ lazy[1].results = <<1, 1, 1>> /\ ~lazy[1].iterable

C31_ExtendLazyOrEager ==
  [][LazyOp({"extend"})
       => /\ Seq1.iterable
               => /\ Seq1Next.results = Seq1.results /\ Seq1Next.iterable
                  /\ consume(lazy', lastOp'.obj)[lastOp'.obj].results
                       = Content(Seq1) \o lastOp'.arg.other
          /\ ~Seq1.iterable
               => /\ Seq1Next.results = Seq1.results \o lastOp'.arg.other
                  /\ ~Seq1Next.iterable /\ Seq1Next.rest = Seq1.rest]_vars

C31_Witness ==
  /\ lastOp.op = "extend" /\ lastOp.arg.other = <<2, 1>>
  /\ lazy[1].source = <<1>>
  /\ lazy[1].results = <<>> /\ lazy[1].rest = <<1, 2, 1>> /\ lazy[1].iterable

(***************************************************************************)
(* C32: the connection of the proxy is made lazily and per thread: a       *)
(* thread that has not gone through the proxy has made no connection, no   *)
(* thread makes more than one connection however often it goes through the *)
(* proxy, a connection is made only in the get_connection of an access,    *)
(* and what a thread holds or is given is a connection it made itself.     *)
(***************************************************************************)
MadeBy(t) == {c \in DOMAIN proxy.made : proxy.made[c] = t}

C32_LazyPerThread ==
  /\ [](\A t \in Threads :
          /\ t \notin proxy.accessed => MadeBy(t) = {}
          /\ Cardinality(MadeBy(t)) <= 1
          /\ proxy.threadlocal[t] # 0 => proxy.threadlocal[t] \in MadeBy(t))
  /\ [](lastOp.result # 0 => lastOp.result \in MadeBy(lastOp.obj))
  /\ [][Len(proxy'.made) > Len(proxy.made)
          => /\ lastOp'.op = "except" /\ lastOp'.obj \in proxy.accessed
             /\ Len(proxy'.made) = Len(proxy.made) + 1]_vars

C32_Witness ==
  /\ Len(proxy.made) = MaxThreads
  /\ \A t \in Threads : proxy.threadlocal[t] # 0
  /\ lastOp.op = "try" /\ lastOp.obj = 2 /\ lastOp.result = proxy.threadlocal[2]
  /\ proxy.threadlocal[1] # proxy.threadlocal[2]

(***************************************************************************)
(* C33: in the status, destroy and truncate flows a round whose call to    *)
(* the storage fails with ResourceNotFoundException yields (table,         *)
(* 'NOT FOUND') and leaves the generator running for the next table; a     *)
(* round whose call fails with another error ends the generator with that  *)
(* very error and yields nothing; and in one flow no call is made twice    *)
(* for the same table.                                                     *)
(***************************************************************************)
Round == lastOp'.op \in {"status", "destroy", "truncate"}
LastCall(g) == g.calls[Len(g.calls)]
Yielded(status) ==
  /\ mgmt'.out = Append(mgmt.out, <<table_name(lastOp'.obj), status>>)
  /\ mgmt'.pos = mgmt.pos + 1
  /\ mgmt'.error = "none"

C33_NotFoundContinues ==
  /\ [][Round =>
          /\ Len(mgmt'.calls) > Len(mgmt.calls)
          /\ LastCall(mgmt')[1] = lastOp'.obj
          /\ \A i \in DOMAIN mgmt'.calls : i < Len(mgmt'.calls) =>
                  mgmt'.calls[i][3] \in {"none", "ResourceNotFoundException"}
          /\ LastCall(mgmt')[3] = "ResourceNotFoundException"
               => Yielded("NOT FOUND") /\ mgmt'.db = mgmt.db
          /\ LastCall(mgmt')[3] \notin {"none", "ResourceNotFoundException"}
               => /\ mgmt'.error = LastCall(mgmt')[3]
                  /\ mgmt'.out = mgmt.out /\ mgmt'.pos = mgmt.pos
          /\ LastCall(mgmt')[3] = "none"
               => \E s \in {"CREATING", "ACTIVE", "DELETED", "TRUNCATED"} : Yielded(s)]_vars
  /\ [](\A i, j \in DOMAIN mgmt.calls :
          (mgmt.calls[i][1] = mgmt.calls[j][1] /\ mgmt.calls[i][2] = mgmt.calls[j][2]) => i = j)
  /\ [](mgmt.error # "none" => ~ENABLED (MgmtStatus \/ MgmtDestroy \/ MgmtTruncate))

C33_Witness ==
  /\ mgmt.flow = "truncate" /\ mgmt.flows = 2
  /\ Len(mgmt.out) = 2 /\ mgmt.out[1][2] = "NOT FOUND" /\ mgmt.out[2][2] = "TRUNCATED"
  /\ Len(mgmt.calls) = 3
  /\ mgmt.calls[1][3] = "ResourceNotFoundException"

(***************************************************************************)
(* C40: build terminates for every timeout >= 0, every wait >= 0 and every *)
(* sequence of statuses; while it polls a table the time slept is between  *)
(* 0 and timeout; the polling of a table ends as soon as the status is not *)
(* CREATING, the time is used up, the table has a single key or is the     *)
(* last one; and with a negative timeout build raises with no table        *)
(* created.                                                                *)
(***************************************************************************)
Polling == mgmt.pc \in {"poll", "sleep"}
Built == mgmt.pc \in {"done", "raised"}
ExitDue ==
  \/ mgmt'.status # "CREATING"
  \/ mgmt.count >= mgmt.timeout
  \/ mgmt.tables[mgmt.table_number] = 1
  \/ mgmt.table_number = Len(mgmt.tables)

C40_CountBounded == [](Polling => (0 <= mgmt.count /\ mgmt.count <= mgmt.timeout))
C40_ExitOnceDue ==
  [][(mgmt.pc = "poll" /\ mgmt'.error = "none") => (ExitDue <=> mgmt'.pc = "create")]_vars
C40_NegativeTimeout ==
  [](mgmt.timeout < 0 => (mgmt.created = {} /\ mgmt.pc \in {"call", "raised"}))
C40_Original ==
  /\ <>Built
  /\ C40_CountBounded
  /\ C40_ExitOnceDue
  /\ C40_NegativeTimeout

(***************************************************************************)
(* C34: an abstract item type whose class statement returned has sent no   *)
(* item_declared notification and none of its managers holds a table; a    *)
(* concrete one has sent exactly one notification, every one of its        *)
(* managers holds the one table made for the class, and the managers held  *)
(* it already when the notification was sent.  A class statement that      *)
(* raises sends at most one notification.                                  *)
(***************************************************************************)
C34_ConcreteAnnouncedWithTable ==
  \A t \in DOMAIN types :
    /\ Len(types[t].sent) <= 1
    /\ types[t].declared =>
         /\ meta_managers(Registry, t) # {}
         /\ types[t].abstract => (types[t].sent = <<>> /\ types[t].tables = {})
         /\ ~types[t].abstract =>
              /\ Len(types[t].sent) = 1
              /\ types[t].tables = {<<k, t>> : k \in meta_managers(Registry, t)}
              /\ types[t].sent[1] = types[t].tables

C34_Witness ==
  /\ Len(types) = 2
  /\ types[1].abstract /\ types[1].declared /\ types[1].sent = <<>>
  /\ ~types[2].abstract /\ types[2].declared /\ types[2].bases = <<1>>
  /\ types[2].tables = {<<DefaultManager, 2>>} /\ Len(types[2].sent) = 1

(***************************************************************************)
(* C35: when a subtype of a concrete item type that holds a link with a    *)
(* reverse accessor is declared without declaring the link again, the      *)
(* class statement raises nothing, the subtype holds a link object of its  *)
(* own with the target, embedded keys and reverse name of the base's link, *)
(* the base's link is as it was, and so is the attribute of the reverse    *)
(* accessor on the target.                                                 *)
(***************************************************************************)
BaseOf(d) == d.bases[1]
BaseLink(d) == types[BaseOf(d)].links["user"]
InheritsLink(d) ==
  /\ d.bases # <<>> /\ d.links = <<>>
  /\ ~types[BaseOf(d)].abstract
  /\ links[BaseLink(d)].linked_name # NONE
SubType == Len(types')

C35_Original ==
  [][(lastOp'.op = "declare" /\ InheritsLink(lastOp'.decl)) =>
       /\ lastOp'.error = "none"
       /\ types'[SubType].declared
       /\ types'[SubType].links["user"] \notin {0, BaseLink(lastOp'.decl)}
       /\ links'[types'[SubType].links["user"]].owner = SubType
       /\ links'[types'[SubType].links["user"]].db_key = links[BaseLink(lastOp'.decl)].db_key
       /\ links'[BaseLink(lastOp'.decl)] = links[BaseLink(lastOp'.decl)]
       /\ \A t \in DOMAIN types : \A a \in AttrNames :
            types[t].attrs[a].kind = "reverse" => types'[t].attrs[a] = types[t].attrs[a]]_vars

(***************************************************************************)
(* C36: del instance.<link> raises nothing, leaves none of the link's      *)
(* embedded key fields in the instance's data and leaves the link's cache  *)
(* slot empty; a read of the link right after it returns None and makes no *)
(* lookup.                                                                 *)
(***************************************************************************)
DeletedLink == links[types[objs[lastOp.obj].type].links[lastOp.key]]

C36_Original ==
  /\ [](lastOp.op = "del_link" =>
          /\ lastOp.error = "none"
          /\ \A i \in DOMAIN DeletedLink.db_key :
               objs[lastOp.obj].data[DeletedLink.db_key[i]] = Missing
          /\ objs[lastOp.obj].cache[lastOp.key] = 0)
  /\ [][(lastOp.op = "del_link" /\ lastOp'.op = "get_link"
           /\ lastOp'.obj = lastOp.obj /\ lastOp'.key = lastOp.key)
          => (lastOp'.error = "none" /\ lastOp'.result = 0 /\ lastOp'.lookups = 0)]_vars

(***************************************************************************)
(* C37: the target in a populated link cache slot has the primary-key      *)
(* values that the instance holds in the embedded key fields of the link.  *)
(* As stated (C37_Original) for the target's current key values; amended   *)
(* (C37_CoherentAsLoaded): for the key values the target was loaded with,  *)
(* the current ones being the same unless a key field of the target itself *)
(* was written or deleted after the load.                                  *)
(***************************************************************************)
Embedded(o, n) ==
  [i \in DOMAIN LinkField(Registry, objs, o, n).db_key |->
     objs[o].data[LinkField(Registry, objs, o, n).db_key[i]]]
PkAsLoaded(o) ==
  [i \in DOMAIN get_key_fields(Registry, objs[o].type) |->
     objs[o].orig[get_key_fields(Registry, objs[o].type)[i]]]
Populated == {s \in (DOMAIN objs) \X LinkNames : objs[s[1]].cache[s[2]] # 0}

ByFieldObject(d) == d.links # <<>> /\ \E i \in DOMAIN d.links[1].db_key : d.links[1].db_key[i] \in FieldRefs

C38_Original ==
  [][lastOp'.op = "declare" =>
       /\ \A p \in 0..Len(lastOp'.decl.keys) :
            /\ DeclarativeItemBase_new_at(Registry, lastOp'.decl, p).error = lastOp'.error
            /\ DeclarativeItemBase_new_at(Registry, lastOp'.decl, p).reg.types = types'
            /\ DeclarativeItemBase_new_at(Registry, lastOp'.decl, p).reg.links = links'
       /\ lastOp'.error # "KeyError"
       /\ (ByFieldObject(lastOp'.decl) /\ lastOp'.error = "none") =>
            links'[types'[lastOp'.obj].links["user"]].db_key
              = db_key_names(lastOp'.decl.links[1].db_key)]_vars

(***************************************************************************)
(* C39: whenever a == b was evaluated, b == a gives the same (the same     *)
(* value, or the same error), also for an instance of a concrete type and  *)
(* an instance of its concrete subtype with the same primary key; and when *)
(* a == b is true, hash(a) and hash(b) hash the same tuple.                *)
(***************************************************************************)
Compared == lastOp.op = "eq"
Reverse == py_eq(Registry, objs, lastOp.arg, lastOp.obj)

C39_Symmetric ==
  Compared =>
    /\ Reverse.error = lastOp.error
    /\ lastOp.error = "none" =>
         /\ Reverse.value = lastOp.value[1]
         /\ lastOp.value[1] => Item_hash(Registry, objs, lastOp.obj)
                                 = Item_hash(Registry, objs, lastOp.arg)

C39_Witness ==
  /\ Compared /\ lastOp.error = "none" /\ ~lastOp.value[1]
  /\ types[objs[lastOp.arg].type].bases = <<objs[lastOp.obj].type>>
  /\ HasPk(Registry, objs, lastOp.obj)
  /\ pk(Registry, objs, lastOp.obj) = pk(Registry, objs, lastOp.arg)
====
